---- MODULE Spec2Model ----
(***************************************************************************)
(* Buffer synchronization and diagnostics scheduling of the TypeScript     *)
(* language server: ResourceMap, BufferSynchronizer, SyncedBuffer,         *)
(* PendingDiagnostics, GetErrRequest, TabResourceTracker and the           *)
(* BufferSyncSupport orchestrator.                                         *)
(*                                                                         *)
(* Strings that the code inspects character by character (paths, keys)     *)
(* are sequences of one-character strings.  A JavaScript Map is a          *)
(* sequence of entries in insertion order.  undefined / the empty string   *)
(* returned by a path normalizer is the empty sequence (both are falsy).   *)
(***************************************************************************)
EXTENDS Integers, Sequences, FiniteSets, TLC

VARIABLES
    cfg,                \* client + constructor configuration, with the two
                        \* validate.enable flags that updateConfiguration sets
    map,                \* a stand-alone ResourceMap<number> / PendingDiagnostics
    pendingDiagnostics, \* BufferSyncSupport.pendingDiagnostics
    syncedBuffers,      \* BufferSyncSupport.syncedBuffers
    requests,           \* every GetErrRequest created so far (index = identity)
    pendingGetErr,      \* BufferSyncSupport.pendingGetErr (0 = undefined)
    pending,            \* BufferSynchronizer._pending
    sent,               \* commands handed to the client, in emission order
    issued,             \* history: calls made on the BufferSynchronizer
    tabResources,       \* TabResourceTracker._tabResources
    timer,              \* diagnosticDelayer: TRUE while a firing is scheduled
    buffer,             \* a stand-alone SyncedBuffer
    last                \* history: the last call, its arguments and result

vars == <<cfg, map, pendingDiagnostics, syncedBuffers, requests, pendingGetErr,
          pending, sent, issued, tabResources, timer, buffer, last>>

(***************************************************************************)
(* Bounds of the model.                                                    *)
(***************************************************************************)
\* Timestamps stored in a PendingDiagnostics map (SpecMap).
MaxTime == 3
\* Calls issued to the synchronizer in a behaviour of SpecSync.
MaxIssued == 3
\* Commands sent to the back-end in a behaviour of SpecBuffer.
MaxSent == 3
\* GetErrRequests created in a behaviour of Spec or SpecDrain.
MaxRequests == 2
\* Values Date.now() takes in Spec.
MaxNow == 1
\* Values Date.now() takes in SpecDrain.
MaxStamp == 2
\* Commands sent to the back-end in a behaviour of SpecReplica.
MaxLog == 4
\* Editor events and API calls in a behaviour of SpecLive.
MaxEvents == 3

(***************************************************************************)
(* client.apiVersion: the versions the code compares against, and one      *)
(* older version.                                                          *)
(***************************************************************************)
API_v340 == 340
API_v440 == 440
API_legacy == API_v340 - 10
ApiVersions == {API_legacy, API_v340, API_v440}

(***************************************************************************)
(* Characters, strings and URIs.                                           *)
(***************************************************************************)
Letters == {"A", "a", "B", "b", "C", "c"}

Lower(c) ==
    CASE c = "A" -> "a"
      [] c = "B" -> "b"
      [] c = "C" -> "c"
      [] OTHER -> c

toLowerCase(s) == [i \in 1..Len(s) |-> Lower(s[i])]

None == <<>>

Uri(scheme, path) == [scheme |-> scheme, path |-> path]

\* vscode-uri: URI.fsPath on a POSIX host (drive letter lower-cased, no
\* separator conversion, no authority).
fsPath(u) ==
    IF Len(u.path) >= 3 /\ u.path[1] = "/" /\ u.path[2] \in Letters /\ u.path[3] = ":"
    THEN <<Lower(u.path[2])>> \o SubSeq(u.path, 3, Len(u.path))
    ELSE u.path

\* vscode-uri: URI.toString(true) of a URI without authority, query, fragment.
uriToString(u) ==
    IF u.scheme = "file" THEN <<"file", ":", "/", "/">> \o u.path
    ELSE <<u.scheme, ":">> \o u.path

\* ResourceMap.defaultPathNormalizer
defaultPathNormalizer(u) ==
    IF u.scheme = "file" THEN fsPath(u) ELSE uriToString(u)

\* ITypeScriptServiceClient.toTsFilePath: a file path for file resources,
\* none for resources the server cannot address.
toTsFilePath(u) ==
    IF u.scheme = "file" THEN fsPath(u) ELSE None

\* The normalizer a ResourceMap was constructed with.
normalizePath(c, u) ==
    IF c.normalizer = "default" THEN defaultPathNormalizer(u) ELSE toTsFilePath(u)

(***************************************************************************)
(* ResourceMap<T>                                                          *)
(***************************************************************************)
isWindowsPath(path) ==
    /\ Len(path) >= 3
    /\ path[1] \in Letters
    /\ path[2] = ":"
    /\ path[3] \in {"/", "\\"}

isCaseInsensitivePath(c, path) ==
    IF isWindowsPath(path) THEN TRUE
    ELSE path[1] = "/" /\ c.onCaseInsensitiveFileSystem

\* Mutant: the key is never case-folded.
toKey_NoFold(c, u) == normalizePath(c, u)

toKey(c, u) ==
    LET key == normalizePath(c, u)
    IN  IF key = <<>> THEN key
        ELSE IF isCaseInsensitivePath(c, key) THEN toLowerCase(key) ELSE key

IndexOfKey(m, k) ==
    IF \E i \in 1..Len(m) : m[i].key = k
    THEN CHOOSE i \in 1..Len(m) : m[i].key = k
    ELSE 0

RM_size(m) == Len(m)

RM_has(c, m, u) ==
    LET file == toKey(c, u)
    IN  file # <<>> /\ IndexOfKey(m, file) # 0

\* Only meaningful where RM_has holds (the code's "undefined" otherwise).
RM_get(c, m, u) == m[IndexOfKey(m, toKey(c, u))].value

RM_set(c, m, u, v) ==
    LET file == toKey(c, u)
        i == IndexOfKey(m, file)
    IN  IF file = <<>> THEN m
        ELSE IF i # 0 THEN [m EXCEPT ![i].value = v]
        ELSE Append(m, [key |-> file, resource |-> u, value |-> v])

RM_delete(c, m, u) ==
    LET file == toKey(c, u)
        i == IndexOfKey(m, file)
    IN  IF file = <<>> \/ i = 0 THEN m
        ELSE SubSeq(m, 1, i - 1) \o SubSeq(m, i + 1, Len(m))

RM_clear == <<>>

RM_values(m) == [i \in 1..Len(m) |-> m[i].value]

RM_entries(m) == [i \in 1..Len(m) |-> [resource |-> m[i].resource, value |-> m[i].value]]

RM_resources(m) == [i \in 1..Len(m) |-> m[i].resource]

RM_keys(m) == {m[i].key : i \in 1..Len(m)}

(***************************************************************************)
(* PendingDiagnostics                                                      *)
(***************************************************************************)
\* Array.prototype.sort((a, b) => a.value - b.value): a stable sort.
RECURSIVE InsertByValue(_, _)
InsertByValue(e, s) ==
    IF s = <<>> THEN <<e>>
    ELSE IF s[Len(s)].value - e.value <= 0 THEN Append(s, e)
    ELSE Append(InsertByValue(e, SubSeq(s, 1, Len(s) - 1)), s[Len(s)])

RECURSIVE SortByValue(_)
SortByValue(s) ==
    IF s = <<>> THEN <<>>
    ELSE InsertByValue(s[Len(s)], SortByValue(SubSeq(s, 1, Len(s) - 1)))

RECURSIVE SetAll(_, _, _)
SetAll(c, m, resources) ==
    IF resources = <<>> THEN m
    ELSE SetAll(c, RM_set(c, m, resources[1], "void"), Tail(resources))

\* Mutant: the entries are not sorted (insertion order is kept).
getOrderedFileSet_Unsorted(c, m) == SetAll(c, <<>>, RM_resources(m))

getOrderedFileSet(c, m) ==
    LET sorted == SortByValue(RM_entries(m))
        orderedResources == [i \in 1..Len(sorted) |-> sorted[i].resource]
    IN  SetAll(c, <<>>, orderedResources)

(***************************************************************************)
(* typeConverters (1-based positions of the server protocol).              *)
(***************************************************************************)
Position_toLocation(pos) == [line |-> pos.line + 1, offset |-> pos.character + 1]

Range_toFormattingRequestArgs(file, range) ==
    [file |-> file,
     line |-> range.start.line + 1, offset |-> range.start.character + 1,
     endLine |-> range.end.line + 1, endOffset |-> range.end.character + 1]

Reverse(s) == [i \in 1..Len(s) |-> s[Len(s) + 1 - i]]

RECURSIVE SelectRanged(_)
SelectRanged(events) ==
    IF events = <<>> THEN <<>>
    ELSE IF "range" \in DOMAIN events[1]
         THEN <<events[1]>> \o SelectRanged(Tail(events))
         ELSE SelectRanged(Tail(events))

(***************************************************************************)
(* BufferSynchronizer.  S is the pair [pending, sent]: the _pending map    *)
(* and the commands handed to the client so far.  Operators return the     *)
(* new pair, with the call's return value in ret where the code has one.   *)
(***************************************************************************)
supportsBatching(c) == c.apiVersion >= API_v340

CloseOperation(filepath) == [type |-> "Close", args |-> filepath]
OpenOperation(args) == [type |-> "Open", args |-> args]
ChangeOperation(args) == [type |-> "Change", args |-> args]

Command(name, args) == [command |-> name, args |-> args]

ArgsOfType(ops, t) ==
    LET sel == SelectSeq(ops, LAMBDA op : op.type = t)
    IN  [i \in 1..Len(sel) |-> sel[i].args]

\* Mutant: the closed files are left out of the updateOpen.
flush_NoClosedFiles(c, S) ==
    IF ~supportsBatching(c) THEN [pending |-> RM_clear, sent |-> S.sent]
    ELSE IF RM_size(S.pending) > 0
    THEN [pending |-> RM_clear,
          sent |-> Append(S.sent,
                      Command("updateOpen",
                              [changedFiles |-> ArgsOfType(RM_values(S.pending), "Change"),
                               closedFiles |-> <<>>,
                               openFiles |-> ArgsOfType(RM_values(S.pending), "Open")]))]
    ELSE S

flush(c, S) ==
    IF ~supportsBatching(c) THEN [pending |-> RM_clear, sent |-> S.sent]
    ELSE IF RM_size(S.pending) > 0
    THEN LET ops == RM_values(S.pending)
         IN  [pending |-> RM_clear,
              sent |-> Append(S.sent,
                          Command("updateOpen",
                                  [changedFiles |-> ArgsOfType(ops, "Change"),
                                   closedFiles |-> ArgsOfType(ops, "Close"),
                                   openFiles |-> ArgsOfType(ops, "Open")]))]
    ELSE S

\* Mutant: the new operation overwrites a pending one without a flush.
updatePending_NoFlush(c, S, resource, op) ==
    IF /\ op.type = "Close"
       /\ RM_has(c, S.pending, resource)
       /\ RM_get(c, S.pending, resource).type = "Open"
    THEN [pending |-> RM_delete(c, S.pending, resource), sent |-> S.sent, ret |-> FALSE]
    ELSE [pending |-> RM_set(c, S.pending, resource, op), sent |-> S.sent, ret |-> TRUE]

\* Mutant: a Close arriving on a pending Open is stored like any other.
updatePending_NoElision(c, S, resource, op) ==
    LET F == IF RM_has(c, S.pending, resource) THEN flush(c, S) ELSE S
    IN  [pending |-> RM_set(c, F.pending, resource, op), sent |-> F.sent, ret |-> TRUE]

\* Mutant: only the entry of the resource is flushed, not the whole batch.
updatePending_FlushOne(c, S, resource, op) ==
    IF /\ op.type = "Close"
       /\ RM_has(c, S.pending, resource)
       /\ RM_get(c, S.pending, resource).type = "Open"
    THEN [pending |-> RM_delete(c, S.pending, resource), sent |-> S.sent, ret |-> FALSE]
    ELSE LET own == SelectSeq(S.pending, LAMBDA e : e.key = toKey(c, resource))
             F == flush(c, [pending |-> own, sent |-> S.sent])
         IN  [pending |-> RM_set(c, RM_delete(c, S.pending, resource), resource, op),
              sent |-> F.sent, ret |-> TRUE]

updatePending(c, S, resource, op) ==
    IF /\ op.type = "Close"
       /\ RM_has(c, S.pending, resource)
       /\ RM_get(c, S.pending, resource).type = "Open"
    THEN [pending |-> RM_delete(c, S.pending, resource), sent |-> S.sent, ret |-> FALSE]
    ELSE LET F == IF RM_has(c, S.pending, resource) THEN flush(c, S) ELSE S
         IN  [pending |-> RM_set(c, F.pending, resource, op), sent |-> F.sent, ret |-> TRUE]

\* The synchronizer after a call whose result is discarded.
Discard(R) == [pending |-> R.pending, sent |-> R.sent]

Sync_open(c, S, resource, args) ==
    IF supportsBatching(c)
    THEN Discard(updatePending(c, S, resource, OpenOperation(args)))
    ELSE [pending |-> S.pending, sent |-> Append(S.sent, Command("open", args))]

Sync_close(c, S, resource, filepath) ==
    IF supportsBatching(c)
    THEN updatePending(c, S, resource, CloseOperation(filepath))
    ELSE [pending |-> S.pending,
          sent |-> Append(S.sent, Command("close", [file |-> filepath])),
          ret |-> TRUE]

\* Mutant: the edits are sent in editor order.
Sync_change_NoReverse(c, S, resource, filepath, events) ==
    IF Len(events) = 0 THEN [pending |-> S.pending, sent |-> S.sent]
    ELSE IF supportsBatching(c)
    THEN LET ranged == SelectRanged(events)
             edits == [i \in 1..Len(ranged) |->
                          [newText |-> ranged[i].text,
                           start |-> Position_toLocation(ranged[i].range.start),
                           end |-> Position_toLocation(ranged[i].range.end)]]
         IN  Discard(updatePending(c, S, resource,
                 ChangeOperation([fileName |-> filepath, textChanges |-> edits])))
    ELSE LET ranged == SelectRanged(events)
             cmds == [i \in 1..Len(ranged) |->
                         Command("change",
                             [insertString |-> ranged[i].text] @@
                             Range_toFormattingRequestArgs(filepath, ranged[i].range))]
         IN  [pending |-> S.pending, sent |-> S.sent \o cmds]

Sync_change(c, S, resource, filepath, events) ==
    IF Len(events) = 0 THEN [pending |-> S.pending, sent |-> S.sent]
    ELSE IF supportsBatching(c)
    THEN LET ranged == SelectRanged(events)
             edits == [i \in 1..Len(ranged) |->
                          [newText |-> ranged[i].text,
                           start |-> Position_toLocation(ranged[i].range.start),
                           end |-> Position_toLocation(ranged[i].range.end)]]
         IN  Discard(updatePending(c, S, resource,
                 ChangeOperation([fileName |-> filepath, textChanges |-> Reverse(edits)])))
    ELSE LET ranged == SelectRanged(events)
             cmds == [i \in 1..Len(ranged) |->
                         Command("change",
                             [insertString |-> ranged[i].text] @@
                             Range_toFormattingRequestArgs(filepath, ranged[i].range))]
         IN  [pending |-> S.pending, sent |-> S.sent \o cmds]

\* Mutant: the pending operations are sent before the map is cleared.
Sync_reset_Sends(S) ==
    IF RM_size(S.pending) = 0 THEN S
    ELSE [pending |-> RM_clear,
          sent |-> Append(S.sent,
                      Command("updateOpen",
                              [changedFiles |-> ArgsOfType(RM_values(S.pending), "Change"),
                               closedFiles |-> ArgsOfType(RM_values(S.pending), "Close"),
                               openFiles |-> ArgsOfType(RM_values(S.pending), "Open")]))]

Sync_reset(S) == [pending |-> RM_clear, sent |-> S.sent]

\* Mutant: every command flushes, updateOpen included.
Sync_beforeCommand_AlwaysFlush(c, S, command) == flush(c, S)

Sync_beforeCommand(c, S, command) ==
    IF command = "updateOpen" THEN [pending |-> S.pending, sent |-> S.sent]
    ELSE flush(c, S)

(***************************************************************************)
(* SyncedBuffer                                                            *)
(***************************************************************************)
BufferState_Initial == 1
BufferState_Open == 2
BufferState_Closed == 2

mode2ScriptKind(mode) ==
    CASE mode = "typescript" -> "TS"
      [] mode = "typescriptreact" -> "TSX"
      [] mode = "javascript" -> "JS"
      [] mode = "javascriptreact" -> "JSX"
      [] OTHER -> "undefined"

\* ITypeScriptServiceClient.getWorkspaceRootForResource
getWorkspaceRootForResource(u) == IF u.scheme = "file" THEN <<"/">> ELSE None

Document(u, languageId) == [uri |-> u, languageId |-> languageId, text |-> "text"]

NewSyncedBuffer(document, filepath) ==
    [document |-> document, filepath |-> filepath, state |-> BufferState_Initial]

\* Uri.parse(document.uri)
Buffer_resource(b) == b.document.uri

Buffer_kind(b) ==
    IF b.document.languageId \in {"javascript", "javascriptreact"}
    THEN "JavaScript" ELSE "TypeScript"

OpenRequestArgs(b) ==
    LET args == [file |-> b.filepath,
                 fileContent |-> b.document.text,
                 projectRootPath |-> getWorkspaceRootForResource(b.document.uri)]
        scriptKind == mode2ScriptKind(b.document.languageId)
    IN  IF scriptKind # "undefined"
        THEN args @@ [scriptKindName |-> scriptKind]
        ELSE args

\* The buffer and the synchronizer after a call on the buffer.
Buffer_after(b, R) == [buffer |-> b, pending |-> R.pending, sent |-> R.sent]

Buffer_open(c, b, S) ==
    Buffer_after([b EXCEPT !.state = BufferState_Open],
                 Sync_open(c, S, Buffer_resource(b), OpenRequestArgs(b)))

Buffer_closed(b, R) ==
    [buffer |-> b, pending |-> R.pending, sent |-> R.sent, ret |-> R.ret]

Buffer_close(c, b, S) ==
    IF b.state # BufferState_Open
    THEN [buffer |-> [b EXCEPT !.state = BufferState_Closed],
          pending |-> S.pending, sent |-> S.sent, ret |-> FALSE]
    ELSE Buffer_closed([b EXCEPT !.state = BufferState_Closed],
                       Sync_close(c, S, Buffer_resource(b), b.filepath))

\* A state other than Open is only logged; the events are forwarded anyway.
Buffer_onContentChanged(c, b, S, events) ==
    [warned |-> b.state # BufferState_Open] @@
    Buffer_after(b, Sync_change(c, S, Buffer_resource(b), b.filepath, events))

(***************************************************************************)
(* Configurations, and the fields of every component right after its       *)
(* construction; tabs is what the tab tracker holds.                       *)
(***************************************************************************)
Config(n, ci, api, sem, proj, vjs, vts) ==
    [normalizer |-> n, onCaseInsensitiveFileSystem |-> ci, apiVersion |-> api,
     semantic |-> sem, enableProjectDiagnostics |-> proj,
     validateJavaScript |-> vjs, validateTypeScript |-> vts]

NoBuffer == [state |-> 0]

Fresh(c, tabs) ==
    /\ cfg = c
    /\ map = <<>>
    /\ pendingDiagnostics = <<>>
    /\ syncedBuffers = <<>>
    /\ requests = <<>>
    /\ pendingGetErr = 0
    /\ pending = <<>>
    /\ sent = <<>>
    /\ issued = <<>>
    /\ tabResources = tabs
    /\ timer = FALSE
    /\ buffer = NoBuffer
    /\ last = [op |-> "new"]

(***************************************************************************)
(* SpecMap: a ResourceMap<number> (PendingDiagnostics) with the default    *)
(* path normalizer, driven by set / delete / clear / getOrderedFileSet.    *)
(***************************************************************************)
WinA == Uri("file", <<"/", "C", ":", "/", "A">>)
Wina == Uri("file", <<"/", "c", ":", "/", "a">>)
FileA == Uri("file", <<"/", "A">>)
Filea == Uri("file", <<"/", "a">>)
GitX == Uri("git", <<"/", "X">>)

MapUris == {WinA, Wina, FileA, Filea}

MapConfigs ==
    {Config("default", ci, API_v440, TRUE, FALSE, TRUE, TRUE) : ci \in BOOLEAN}

InitMap == \E c \in MapConfigs : Fresh(c, <<>>)

MapFrame ==
    UNCHANGED <<cfg, pendingDiagnostics, syncedBuffers, requests, pendingGetErr,
                pending, sent, issued, tabResources, timer, buffer>>

MapSet(u, v) ==
    /\ map' = RM_set(cfg, map, u, v)
    /\ last' = [op |-> "set", arg |-> u, val |-> v]
    /\ MapFrame

MapDelete(u) ==
    /\ map' = RM_delete(cfg, map, u)
    /\ last' = [op |-> "delete", arg |-> u]
    /\ MapFrame

MapClear ==
    /\ map' = RM_clear
    /\ last' = [op |-> "clear"]
    /\ MapFrame

MapGetOrderedFileSet ==
    /\ last' = [op |-> "getOrderedFileSet", ret |-> getOrderedFileSet(cfg, map)]
    /\ UNCHANGED map
    /\ MapFrame

NextMap ==
    \/ \E u \in MapUris, v \in 1..MaxTime : MapSet(u, v)
    \/ \E u \in MapUris : MapDelete(u)
    \/ MapClear
    \/ MapGetOrderedFileSet

SpecMap == InitMap /\ [][NextMap]_vars

(***************************************************************************)
(* Properties of ResourceMap and PendingDiagnostics (SpecMap).             *)
(***************************************************************************)
IsDrivePath(k) ==
    Len(k) >= 3 /\ k[1] \in Letters /\ k[2] = ":" /\ k[3] \in {"/", "\\"}

\* u1 and u2 normalize to keys that differ at most by letter case, and the
\* key is a drive-letter path or an absolute POSIX path on a
\* case-insensitive file system.
CaseEquivalent(c, u1, u2) ==
    LET k1 == normalizePath(c, u1)
        k2 == normalizePath(c, u2)
    IN  /\ k1 # <<>>
        /\ toLowerCase(k1) = toLowerCase(k2)
        /\ \/ IsDrivePath(k1)
           \/ k1[1] = "/" /\ c.onCaseInsensitiveFileSystem

SameEntry(c, u1, u2) ==
    \/ normalizePath(c, u1) # <<>> /\ normalizePath(c, u1) = normalizePath(c, u2)
    \/ CaseEquivalent(c, u1, u2)

C10_SameEntry ==
    \A u1, u2 \in MapUris :
        CaseEquivalent(cfg, u1, u2) =>
            /\ RM_has(cfg, map, u1) = RM_has(cfg, map, u2)
            /\ RM_has(cfg, map, u1) => RM_get(cfg, map, u1) = RM_get(cfg, map, u2)
            /\ Cardinality({i \in 1..Len(map) : SameEntry(cfg, map[i].resource, u1)}) <= 1

C10_SetStep ==
    last'.op = "set" =>
        LET u == last'.arg
            v == last'.val
            hit == {j \in 1..Len(map) : SameEntry(cfg, map[j].resource, u)}
        IN  IF hit # {}
            THEN \E j \in hit : map' = [map EXCEPT ![j].value = v]
            ELSE /\ Len(map') = Len(map) + 1
                 /\ SubSeq(map', 1, Len(map)) = map
                 /\ map'[Len(map')].resource = u
                 /\ map'[Len(map')].value = v

\* C10: URIs whose normalized keys differ only by case address one entry on
\* drive-letter paths and on absolute POSIX paths of a case-insensitive file
\* system; an entry keeps the URI of the set that created it, and a later
\* set through another spelling replaces only the value.
C10_CaseFoldedEntryKeepsUri == [](C10_SameEntry) /\ [][C10_SetStep]_vars

\* C10 witness: the entry created through file:///C:/A was overwritten
\* through file:///c:/a on a case-sensitive file system and still carries
\* the original URI.
C10_Witness ==
    /\ ~cfg.onCaseInsensitiveFileSystem
    /\ last.op = "set" /\ last.arg = Wina /\ last.val = 2
    /\ Len(map) = 1
    /\ map[1].resource = WinA
    /\ map[1].value = 2
    /\ RM_get(cfg, map, WinA) = 2

PositionOf(m, u) == CHOOSE i \in 1..Len(m) : m[i].resource = u

\* C9: getOrderedFileSet returns exactly the stored resources, in
\* non-decreasing order of their stored timestamps, ties in insertion order;
\* the stored timestamp of a resource is the one of its latest set.
C9_OrderedByTimestamp ==
    /\ last.op = "set" =>
           RM_has(cfg, map, last.arg) /\ RM_get(cfg, map, last.arg) = last.val
    /\ last.op = "getOrderedFileSet" =>
           LET o == last.ret
           IN  /\ Len(o) = Len(map)
               /\ {o[i].resource : i \in 1..Len(o)} = {map[i].resource : i \in 1..Len(map)}
               /\ \A i, j \in 1..Len(o) :
                      i < j =>
                          LET pi == PositionOf(map, o[i].resource)
                              pj == PositionOf(map, o[j].resource)
                          IN  \/ map[pi].value < map[pj].value
                              \/ map[pi].value = map[pj].value /\ pi < pj

\* C9 witness: A@1, B@3, C@2 were stored in that order and the ordered file
\* set is [A, C, B].
C9_Witness ==
    /\ last.op = "getOrderedFileSet"
    /\ Len(map) = 3
    /\ RM_entries(map) = << [resource |-> FileA, value |-> 1],
                            [resource |-> WinA, value |-> 3],
                            [resource |-> Filea, value |-> 2] >>
    /\ RM_resources(last.ret) = <<FileA, Filea, WinA>>

(***************************************************************************)
(* SpecSync: a BufferSynchronizer driven directly by open / close /        *)
(* change / beforeCommand.  issued records every operation handed to the   *)
(* synchronizer with the return value of the call.                         *)
(***************************************************************************)
SyncUris == {FileA, Filea}

RangeAt(l) == [start |-> [line |-> l, character |-> 0], end |-> [line |-> l, character |-> 1]]
EditLine1 == [range |-> RangeAt(0), text |-> "x"]
EditLine5 == [range |-> RangeAt(4), text |-> "y"]
FullText == [text |-> "z"]

EventLists == { <<>>, <<EditLine1, EditLine5>>, <<FullText, EditLine5>> }

CommandNames == {"updateOpen", "completionInfo"}

SyncConfigs ==
    {Config("client", ci, api, TRUE, FALSE, TRUE, TRUE) :
        ci \in BOOLEAN, api \in {API_legacy, API_v340}}

InitSync == \E c \in SyncConfigs : Fresh(c, <<>>)

SyncFrame ==
    UNCHANGED <<cfg, map, pendingDiagnostics, syncedBuffers, requests, pendingGetErr,
                tabResources, timer, buffer>>

SyncState == [pending |-> pending, sent |-> sent]

Issue(resource, type, ret) ==
    Append(issued, [resource |-> resource, type |-> type, ret |-> ret])

SyncOpen(r) ==
    /\ Len(issued) < MaxIssued
    /\ LET R == Sync_open(cfg, SyncState, r,
                    [file |-> toTsFilePath(r), fileContent |-> "text"])
       IN  /\ pending' = R.pending
           /\ sent' = R.sent
           /\ issued' = Issue(r, "Open", TRUE)
           /\ last' = [op |-> "Sync.open", arg |-> r]
    /\ SyncFrame

SyncClose(r) ==
    /\ Len(issued) < MaxIssued
    /\ LET R == Sync_close(cfg, SyncState, r, toTsFilePath(r))
       IN  /\ pending' = R.pending
           /\ sent' = R.sent
           /\ issued' = Issue(r, "Close", R.ret)
           /\ last' = [op |-> "Sync.close", arg |-> r, ret |-> R.ret]
    /\ SyncFrame

SyncChange(r, events) ==
    /\ Len(issued) < MaxIssued
    /\ LET R == Sync_change(cfg, SyncState, r, toTsFilePath(r), events)
       IN  /\ pending' = R.pending
           /\ sent' = R.sent
           /\ issued' = IF Len(events) = 0 THEN issued ELSE Issue(r, "Change", TRUE)
           /\ last' = [op |-> "Sync.change", arg |-> r, events |-> events]
    /\ SyncFrame

SyncBeforeCommand(command) ==
    /\ LET R == Sync_beforeCommand(cfg, SyncState, command)
       IN  /\ pending' = R.pending
           /\ sent' = R.sent
           /\ last' = [op |-> "Sync.beforeCommand", arg |-> command]
    /\ UNCHANGED issued
    /\ SyncFrame

NextSync ==
    \/ \E r \in SyncUris : SyncOpen(r)
    \/ \E r \in SyncUris : SyncClose(r)
    \/ \E r \in SyncUris, events \in EventLists : SyncChange(r, events)
    \/ \E command \in CommandNames : SyncBeforeCommand(command)

SpecSync == InitSync /\ [][NextSync]_vars

(***************************************************************************)
(* Properties of the BufferSynchronizer (SpecSync).                        *)
(***************************************************************************)
\* The map key of a file path handed to the server.
KeyOfPath(c, path) ==
    IF isCaseInsensitivePath(c, path) THEN toLowerCase(path) ELSE path

SyncKeys == {toKey(cfg, r) : r \in SyncUris}

\* The operation types one command delivers for key k.  The server applies
\* the open, changed and closed files of an updateOpen in that order.
TypesIn(cmd, k) ==
    IF cmd.command # "updateOpen" THEN <<>>
    ELSE LET a == cmd.args
             o == SelectSeq(a.openFiles, LAMBDA x : KeyOfPath(cfg, x.file) = k)
             g == SelectSeq(a.changedFiles, LAMBDA x : KeyOfPath(cfg, x.fileName) = k)
             x == SelectSeq(a.closedFiles, LAMBDA f : KeyOfPath(cfg, f) = k)
         IN  [i \in 1..Len(o) |-> "Open"] \o [i \in 1..Len(g) |-> "Change"]
                 \o [i \in 1..Len(x) |-> "Close"]

RECURSIVE Delivered(_, _)
Delivered(log, k) ==
    IF log = <<>> THEN <<>>
    ELSE TypesIn(log[1], k) \o Delivered(Tail(log), k)

PendingTypes(k) ==
    LET sel == SelectSeq(pending, LAMBDA e : e.key = k)
    IN  [i \in 1..Len(sel) |-> sel[i].value.type]

IssuedOf(k) == SelectSeq(issued, LAMBDA e : toKey(cfg, e.resource) = k)

\* The issued operations without the pairs a close reported as elided.
RECURSIVE Elide(_, _)
Elide(s, acc) ==
    IF s = <<>> THEN acc
    ELSE IF s[1].type = "Close" /\ ~s[1].ret
         THEN Elide(Tail(s), SubSeq(acc, 1, Len(acc) - 1))
         ELSE Elide(Tail(s), Append(acc, s[1].type))

\* C1: in batching mode the operations of a resource reach the server, in
\* successive updateOpen batches, in the order they were issued; the only
\* operations missing are an Open and the Close that found it still pending.
C1_PerResourceOrder ==
    supportsBatching(cfg) =>
        \A k \in SyncKeys :
            /\ \A i \in 1..Len(sent) : Len(TypesIn(sent[i], k)) <= 1
            /\ Delivered(sent, k) \o PendingTypes(k) = Elide(IssuedOf(k), <<>>)
            /\ \A i \in 1..Len(IssuedOf(k)) :
                   (IssuedOf(k)[i].type = "Close" /\ ~IssuedOf(k)[i].ret) =>
                       i > 1 /\ IssuedOf(k)[i - 1].type = "Open"

\* C1 witness: Open, Change and Close of one resource, the first two already
\* delivered in two successive batches and the Close pending.
C1_Witness ==
    /\ supportsBatching(cfg)
    /\ Len(sent) = 2
    /\ \E k \in SyncKeys :
          /\ Delivered(sent, k) = <<"Open", "Change">>
          /\ PendingTypes(k) = <<"Close">>

C2_CloseStep ==
    (/\ last'.op = "Sync.close"
     /\ Len(issued') = Len(issued) + 1
     /\ supportsBatching(cfg)
     /\ RM_has(cfg, pending, last'.arg)
     /\ RM_get(cfg, pending, last'.arg).type = "Open")
    => /\ last'.ret = FALSE
       /\ sent' = sent
       /\ ~RM_has(cfg, pending', last'.arg)
       /\ Len(pending') = Len(pending) - 1

C2_EmptyFlushStep ==
    (last'.op = "Sync.beforeCommand" /\ pending = <<>>) => sent' = sent /\ pending' = <<>>

C2_NothingSent ==
    supportsBatching(cfg) =>
        \A k \in SyncKeys :
            (IssuedOf(k) # <<>> /\ Elide(IssuedOf(k), <<>>) = <<>>) =>
                /\ PendingTypes(k) = <<>>
                /\ \A i \in 1..Len(sent) : TypesIn(sent[i], k) = <<>>

\* C2: in batching mode a close that finds the resource's Open still pending
\* deletes the entry, returns false and sends nothing; no command for the
\* resource is produced, and a flush with nothing pending sends nothing.
C2_OpenCloseElided ==
    [](C2_NothingSent) /\ [][C2_CloseStep /\ C2_EmptyFlushStep]_vars

\* C2 witness: open(r), close(r) returned false, then a flushing
\* beforeCommand ran and nothing was sent.
C2_Witness ==
    /\ supportsBatching(cfg)
    /\ Len(issued) = 2
    /\ issued[1].type = "Open" /\ issued[2].type = "Close" /\ ~issued[2].ret
    /\ issued[1].resource = issued[2].resource
    /\ last.op = "Sync.beforeCommand" /\ last.arg # "updateOpen"
    /\ sent = <<>> /\ pending = <<>>

\* The ranged events of a change call, in editor order.
RangedOf(events) ==
    SelectSeq(events, LAMBDA e : "range" \in DOMAIN e)

\* The edit of a ranged event: 1-based line and offset.
EditOf(e) ==
    [newText |-> e.text,
     start |-> [line |-> e.range.start.line + 1, offset |-> e.range.start.character + 1],
     end |-> [line |-> e.range.end.line + 1, offset |-> e.range.end.character + 1]]

\* The arguments of the pending Change operations, in map order.
PendingChanges ==
    LET sel == SelectSeq(pending, LAMBDA e : e.value.type = "Change")
    IN  [i \in 1..Len(sel) |-> sel[i].value.args]

C11_ChangeStep ==
    (/\ last'.op = "Sync.change"
     /\ Len(issued') = Len(issued) + 1
     /\ supportsBatching(cfg))
    => LET op == RM_get(cfg, pending', last'.arg)
           rg == RangedOf(last'.events)
       IN  /\ RM_has(cfg, pending', last'.arg)
           /\ op.type = "Change"
           /\ op.args.fileName = toTsFilePath(last'.arg)
           /\ Len(op.args.textChanges) = Len(rg)
           /\ \A i \in 1..Len(rg) :
                  op.args.textChanges[i] = EditOf(rg[Len(rg) + 1 - i])

C11_FlushStep ==
    (supportsBatching(cfg) /\ sent' # sent)
    => /\ Len(sent') = Len(sent) + 1
       /\ SubSeq(sent', 1, Len(sent)) = sent
       /\ sent'[Len(sent')].command = "updateOpen"
       /\ sent'[Len(sent')].args.changedFiles = PendingChanges

\* C11: in batching mode a change call with ranged changes e1..en stores a
\* Change whose textChanges are the translated edits in reversed order en..e1,
\* and the next flush sends it unchanged as the file's changedFiles entry of
\* one updateOpen.
C11_EditsReversed == [][C11_ChangeStep /\ C11_FlushStep]_vars

\* C11 witness: changes at lines 1 then 5 were flushed as line 5 then line 1.
C11_Witness ==
    /\ supportsBatching(cfg)
    /\ last.op = "Sync.beforeCommand"
    /\ Len(sent) = 1
    /\ Len(sent[1].args.changedFiles) = 1
    /\ LET tc == sent[1].args.changedFiles[1].textChanges
       IN  /\ Len(tc) = 2
           /\ tc[1].start.line = 5
           /\ tc[2].start.line = 1

\* The arguments of the pending operations of type t, in map order.
PendingArgs(t) ==
    LET sel == SelectSeq(pending, LAMBDA e : e.value.type = t)
    IN  [i \in 1..Len(sel) |-> sel[i].value.args]

\* cmd is one updateOpen carrying exactly the pending operations.
CarriesPending(cmd) ==
    /\ cmd.command = "updateOpen"
    /\ cmd.args.openFiles = PendingArgs("Open")
    /\ cmd.args.closedFiles = PendingArgs("Close")
    /\ cmd.args.changedFiles = PendingArgs("Change")
    /\ Len(cmd.args.openFiles) + Len(cmd.args.closedFiles)
           + Len(cmd.args.changedFiles) = Len(pending)

C13_FlushingCommand ==
    (last'.op = "Sync.beforeCommand" /\ last'.arg # "updateOpen")
    => /\ pending' = <<>>
       /\ IF pending = <<>> THEN sent' = sent
          ELSE /\ Len(sent') = Len(sent) + 1
               /\ SubSeq(sent', 1, Len(sent)) = sent
               /\ CarriesPending(sent'[Len(sent')])

C13_UpdateOpenCommand ==
    (last'.op = "Sync.beforeCommand" /\ last'.arg = "updateOpen")
    => sent' = sent /\ pending' = pending

\* C13: beforeCommand of a command other than updateOpen leaves the pending
\* map empty and has sent every pending operation in exactly one updateOpen
\* (none if nothing was pending); beforeCommand("updateOpen") sends nothing
\* and leaves the pending map as it was.
C13_BeforeCommandFlushes == [][C13_FlushingCommand /\ C13_UpdateOpenCommand]_vars

\* C13 witness: a flushing command sent the operations pending for two
\* resources in one updateOpen.
C13_Witness ==
    /\ supportsBatching(cfg)
    /\ last.op = "Sync.beforeCommand"
    /\ last.arg # "updateOpen"
    /\ pending = <<>>
    /\ Len(sent) = 1
    /\ Len(sent[1].args.openFiles) + Len(sent[1].args.closedFiles)
           + Len(sent[1].args.changedFiles) = 2
    /\ Len(issued) = 2

\* The step issues an operation for a resource that has one pending, and it
\* is not a Close that finds a pending Open.
Collides ==
    /\ supportsBatching(cfg)
    /\ Len(issued') = Len(issued) + 1
    /\ RM_has(cfg, pending, last'.arg)
    /\ ~ /\ issued'[Len(issued')].type = "Close"
         /\ RM_get(cfg, pending, last'.arg).type = "Open"

C15_CollisionStep ==
    Collides
    => /\ Len(sent') = Len(sent) + 1
       /\ SubSeq(sent', 1, Len(sent)) = sent
       /\ CarriesPending(sent'[Len(sent')])
       /\ Len(pending') = 1
       /\ pending'[1].key = toKey(cfg, last'.arg)
       /\ pending'[1].value.type = issued'[Len(issued')].type

C15_OnePerKey ==
    \A i, j \in 1..Len(pending') : pending'[i].key = pending'[j].key => i = j

\* C15: in batching mode an operation arriving for a resource that already
\* has one pending (a Close on a pending Open apart) first sends the pending
\* operations of all resources in one updateOpen, partitioned in map order;
\* afterwards the map holds exactly the new operation, and the map never
\* holds two operations for one key.
C15_CollisionFlushesBatch == [][C15_CollisionStep /\ C15_OnePerKey]_vars

\* C15 witness: with operations pending for two resources, a change of the
\* first one sent both in one updateOpen and is now the only pending one.
C15_Witness ==
    /\ supportsBatching(cfg)
    /\ last.op = "Sync.change"
    /\ Len(issued) = 3
    /\ Len(sent) = 1
    /\ Len(sent[1].args.openFiles) = 2
    /\ Len(pending) = 1
    /\ pending[1].value.type = "Change"

(***************************************************************************)
(* SpecBuffer: one SyncedBuffer with its synchronizer, driven by open /    *)
(* close / onContentChanged in any order, with flushing commands between.  *)
(***************************************************************************)
BufferDocs == {Document(FileA, "typescript"), Document(Filea, "javascriptreact")}

BufferConfigs ==
    {Config("client", FALSE, api, TRUE, FALSE, TRUE, TRUE) : api \in {API_legacy, API_v340}}

InitBuffer ==
    \E c \in BufferConfigs, d \in BufferDocs :
        /\ cfg = c
        /\ map = <<>>
        /\ pendingDiagnostics = <<>>
        /\ syncedBuffers = <<>>
        /\ requests = <<>>
        /\ pendingGetErr = 0
        /\ pending = <<>>
        /\ sent = <<>>
        /\ issued = <<>>
        /\ tabResources = <<>>
        /\ timer = FALSE
        /\ buffer = NewSyncedBuffer(d, toTsFilePath(d.uri))
        /\ last = [op |-> "new"]

BufferFrame ==
    UNCHANGED <<cfg, map, pendingDiagnostics, syncedBuffers, requests, pendingGetErr,
                issued, tabResources, timer>>

BufOpen ==
    /\ LET R == Buffer_open(cfg, buffer, SyncState)
       IN  /\ Len(R.sent) <= MaxSent
           /\ buffer' = R.buffer
           /\ pending' = R.pending
           /\ sent' = R.sent
           /\ last' = [op |-> "Buffer.open"]
    /\ BufferFrame

BufClose ==
    /\ LET R == Buffer_close(cfg, buffer, SyncState)
       IN  /\ Len(R.sent) <= MaxSent
           /\ buffer' = R.buffer
           /\ pending' = R.pending
           /\ sent' = R.sent
           /\ last' = [op |-> "Buffer.close", ret |-> R.ret]
    /\ BufferFrame

BufContentChanged(events) ==
    /\ LET R == Buffer_onContentChanged(cfg, buffer, SyncState, events)
       IN  /\ Len(R.sent) <= MaxSent
           /\ buffer' = R.buffer
           /\ pending' = R.pending
           /\ sent' = R.sent
           /\ last' = [op |-> "Buffer.onContentChanged", events |-> events,
                       warned |-> R.warned]
    /\ BufferFrame

BufBeforeCommand(command) ==
    /\ LET R == Sync_beforeCommand(cfg, SyncState, command)
       IN  /\ Len(R.sent) <= MaxSent
           /\ pending' = R.pending
           /\ sent' = R.sent
           /\ last' = [op |-> "Sync.beforeCommand", arg |-> command]
    /\ UNCHANGED buffer
    /\ BufferFrame

NextBuffer ==
    \/ BufOpen
    \/ BufClose
    \/ \E events \in EventLists : BufContentChanged(events)
    \/ \E command \in CommandNames : BufBeforeCommand(command)

SpecBuffer == InitBuffer /\ [][NextBuffer]_vars

(***************************************************************************)
(* Properties of SyncedBuffer (SpecBuffer).                                *)
(***************************************************************************)
\* Closed, as a state of its own.
IsClosed(b) ==
    /\ b.state = BufferState_Closed
    /\ b.state # BufferState_Open
    /\ b.state # BufferState_Initial

\* C5: Initial, Open and Closed are three distinct states; close() takes the
\* buffer to Closed and no later call takes it out of Closed.
C5_ClosedIsTerminal ==
    [][ /\ last'.op = "Buffer.close" => IsClosed(buffer')
        /\ IsClosed(buffer) => IsClosed(buffer') ]_vars

\* C6: close() on a buffer that is not Open (never opened, or closed before)
\* returns false and hands nothing to the synchronizer.
C6_CloseWhenNotOpen ==
    [][ (/\ last'.op = "Buffer.close"
         /\ \/ buffer.state = BufferState_Initial
            \/ last.op = "Buffer.close")
        => /\ last'.ret = FALSE
           /\ pending' = pending
           /\ sent' = sent ]_vars

\* C23: onContentChanged on a buffer that is not Open (never opened, or
\* closed before) warns and hands nothing to the synchronizer, so no Change
\* is stored or sent for it; with no events it changes nothing in any state.
\* The code only logs the unexpected state and forwards the events anyway.
C23_ChangesOnlyWhenOpen ==
    [][ /\ (/\ last'.op = "Buffer.onContentChanged"
            /\ \/ buffer.state # BufferState_Open
               \/ last.op = "Buffer.close")
           => /\ last'.warned
              /\ pending' = pending
              /\ sent' = sent
        /\ (last'.op = "Buffer.onContentChanged" /\ last'.events = <<>>)
           => /\ pending' = pending
              /\ sent' = sent
              /\ buffer' = buffer ]_vars

(***************************************************************************)
(* GetErrRequest.  request is the state of the executeAsync promise        *)
(* ("none" when no command was issued), immediate is TRUE while a          *)
(* setImmediate(onDone) callback is queued, onDoneCalls counts the         *)
(* invocations of onDone.                                                  *)
(***************************************************************************)
\* ITypeScriptServiceClient.hasCapabilityForResource(resource, Semantic)
hasCapabilityForResource(c, u) == c.semantic /\ u.scheme = "file"

isErrorReportingEnabled(c) ==
    IF c.apiVersion >= API_v440 THEN TRUE ELSE c.semantic

areProjectDiagnosticsEnabled(c) == c.enableProjectDiagnostics /\ c.semantic

\* coalesce(files.entries.filter(...).map(toTsFilePath))
GetErrFiles(c, files) ==
    LET supportsSyntaxGetErr == c.apiVersion >= API_v440
        kept == SelectSeq(RM_resources(files),
                    LAMBDA u : supportsSyntaxGetErr \/ hasCapabilityForResource(c, u))
        paths == [i \in 1..Len(kept) |-> toTsFilePath(kept[i])]
    IN  SelectSeq(paths, LAMBDA f : f # None)

NewGetErrRequest(c, files) ==
    LET early == [files |-> files, done |-> TRUE, cancelled |-> FALSE, disposed |-> FALSE,
                  request |-> "none", immediate |-> TRUE, onDoneCalls |-> 0]
    IN  IF ~isErrorReportingEnabled(c) THEN early
        ELSE IF Len(GetErrFiles(c, files)) = 0 THEN early
        ELSE [files |-> files, done |-> FALSE, cancelled |-> FALSE, disposed |-> FALSE,
              request |-> "pending", immediate |-> FALSE, onDoneCalls |-> 0]

\* The command the constructor issues through client.executeAsync, if any.
GetErrCommands(c, files) ==
    LET allFiles == GetErrFiles(c, files)
    IN  IF ~isErrorReportingEnabled(c) \/ Len(allFiles) = 0 THEN <<>>
        ELSE IF areProjectDiagnosticsEnabled(c)
        THEN <<Command("geterrForProject", [delay |-> 0, file |-> allFiles[1]])>>
        ELSE <<Command("geterr", [delay |-> 0, files |-> allFiles])>>

\* Mutant: cancel() also reports completion.
Request_cancel_CallsOnDone(r) ==
    [r EXCEPT !.cancelled = r.cancelled \/ ~r.done, !.disposed = TRUE,
              !.onDoneCalls = IF r.done THEN @ ELSE @ + 1]

Request_cancel(r) ==
    [r EXCEPT !.cancelled = r.cancelled \/ ~r.done, !.disposed = TRUE]

(***************************************************************************)
(* TabResourceTracker.  A tab is [id, input, uris]; the tracker maps a     *)
(* resource to the set of ids of the tabs showing it.                      *)
(***************************************************************************)
getResourcesForTab(tab) ==
    CASE tab.input = "text" -> <<tab.uri>>
      [] tab.input = "diff" -> <<tab.original, tab.modified>>
      [] tab.input = "notebook" -> <<tab.uri>>
      [] OTHER -> <<>>

Tab_has(c, tabs, u) == RM_has(c, tabs, u) /\ Cardinality(RM_get(c, tabs, u)) > 0

\* Both return [tabs, uris]: the new map and the resources newly added / closed.
RECURSIVE Tab_addUris(_, _, _, _)
Tab_addUris(c, T, tab, uris) ==
    IF uris = <<>> THEN T
    ELSE LET u == uris[1]
         IN  IF RM_has(c, T.tabs, u)
             THEN Tab_addUris(c,
                      [tabs |-> RM_set(c, T.tabs, u, RM_get(c, T.tabs, u) \cup {tab.id}),
                       uris |-> T.uris], tab, Tail(uris))
             ELSE Tab_addUris(c,
                      [tabs |-> RM_set(c, T.tabs, u, {tab.id}),
                       uris |-> Append(T.uris, u)], tab, Tail(uris))

Tab_add(c, tabs, tab) ==
    Tab_addUris(c, [tabs |-> tabs, uris |-> <<>>], tab, getResourcesForTab(tab))

RECURSIVE Tab_deleteUris(_, _, _, _)
Tab_deleteUris(c, T, tab, uris) ==
    IF uris = <<>> THEN T
    ELSE LET u == uris[1]
         IN  IF ~RM_has(c, T.tabs, u) THEN Tab_deleteUris(c, T, tab, Tail(uris))
             ELSE LET rest == RM_get(c, T.tabs, u) \ {tab.id}
                  IN  IF Cardinality(rest) = 0
                      THEN Tab_deleteUris(c,
                               [tabs |-> RM_delete(c, T.tabs, u),
                                uris |-> Append(T.uris, u)], tab, Tail(uris))
                      ELSE Tab_deleteUris(c,
                               [tabs |-> RM_set(c, T.tabs, u, rest), uris |-> T.uris],
                               tab, Tail(uris))

Tab_delete(c, tabs, tab) ==
    Tab_deleteUris(c, [tabs |-> tabs, uris |-> <<>>], tab, getResourcesForTab(tab))

(***************************************************************************)
(* BufferSyncSupport.  O is the orchestrator's state as a record (the      *)
(* fields are the variables of the same names; fired collects the events   *)
(* published by the running handler).  clock is the sequence of the values *)
(* that the reads of Date.now() by the running handler return.             *)
(***************************************************************************)
\* Date.now(): the first value of the clock; a read consumes it, and the last
\* value repeats.
Date_now(clock) == Head(clock)

Tick(clock) == IF Len(clock) > 1 THEN Tail(clock) ELSE clock

ModeIds == {"typescript", "typescriptreact", "javascript", "javascriptreact"}

CancelPending(O) ==
    IF O.pendingGetErr = 0 THEN O
    ELSE [O EXCEPT !.requests[O.pendingGetErr] = Request_cancel(@)]

DeleteFromPendingGetErr(c, O, u) ==
    IF O.pendingGetErr = 0 THEN O
    ELSE [O EXCEPT !.requests[O.pendingGetErr].files = RM_delete(c, @, u)]

SyncOf(O) == [pending |-> O.pending, sent |-> O.sent]

\* Delayer.trigger: (re)arms the timer with sendPendingDiagnostics.
triggerDiagnostics(O) == [O EXCEPT !.timer = TRUE]

\* updateConfiguration(): the two validate.enable settings are read again;
\* jsEnable and tsEnable are the values the workspace configuration holds.
updateConfiguration(c, jsEnable, tsEnable) ==
    [c EXCEPT !.validateJavaScript = jsEnable, !.validateTypeScript = tsEnable]

\* Mutant: visibility in a tab is not consulted.
shouldValidate_IgnoreTabs(c, O, b) ==
    IF Buffer_kind(b) = "JavaScript" THEN c.validateJavaScript ELSE c.validateTypeScript

shouldValidate(c, O, b) ==
    IF ~c.enableProjectDiagnostics /\ ~Tab_has(c, O.tabResources, Buffer_resource(b))
    THEN FALSE
    ELSE IF Buffer_kind(b) = "JavaScript" THEN c.validateJavaScript
         ELSE c.validateTypeScript

requestDiagnostic(c, O, b, clock) ==
    IF ~shouldValidate(c, O, b) THEN [o |-> O, ret |-> FALSE]
    ELSE [o |-> triggerDiagnostics(
                    [O EXCEPT !.pendingDiagnostics = RM_set(c, @, Buffer_resource(b), Date_now(clock))]),
          ret |-> TRUE]

RECURSIVE EnqueueValidatable(_, _, _, _)
EnqueueValidatable(c, O, buffers, clock) ==
    IF buffers = <<>> THEN O
    ELSE IF shouldValidate(c, O, buffers[1])
         THEN EnqueueValidatable(c,
                  [O EXCEPT !.pendingDiagnostics =
                                RM_set(c, @, Buffer_resource(buffers[1]), Date_now(clock))],
                  Tail(buffers), Tick(clock))
         ELSE EnqueueValidatable(c, O, Tail(buffers), clock)

requestAllDiagnostics(c, O, clock) ==
    triggerDiagnostics(EnqueueValidatable(c, O, RM_values(O.syncedBuffers), clock))

\* The orchestrator with the synchronizer as the call on a buffer left it.
WithSync(O, R) == [O EXCEPT !.pending = R.pending, !.sent = R.sent]

\* this.syncedBuffers.set(resource, syncedBuffer); syncedBuffer.open();
\* this.requestDiagnostic(syncedBuffer), R being the result of open().
Opened(c, O, resource, R, clock) ==
    requestDiagnostic(c,
        [WithSync(O, R) EXCEPT !.syncedBuffers = RM_set(c, @, resource, R.buffer)],
        R.buffer, clock).o

\* Mutant: a document whose resource is already tracked is opened again.
openTextDocument_Reopens(c, O, document, clock) ==
    IF document.languageId \notin ModeIds THEN [o |-> O, ret |-> FALSE]
    ELSE LET resource == document.uri
             filepath == toTsFilePath(resource)
         IN  IF filepath = None THEN [o |-> O, ret |-> FALSE]
             ELSE [o |-> Opened(c, O, resource,
                             Buffer_open(c, NewSyncedBuffer(document, filepath), SyncOf(O)),
                             clock),
                   ret |-> TRUE]

openTextDocument(c, O, document, clock) ==
    IF document.languageId \notin ModeIds THEN [o |-> O, ret |-> FALSE]
    ELSE LET resource == document.uri
             filepath == toTsFilePath(resource)
         IN  IF filepath = None THEN [o |-> O, ret |-> FALSE]
             ELSE IF RM_has(c, O.syncedBuffers, resource) THEN [o |-> O, ret |-> TRUE]
             ELSE [o |-> Opened(c, O, resource,
                             Buffer_open(c, NewSyncedBuffer(document, filepath), SyncOf(O)),
                             clock),
                   ret |-> TRUE]

\* Mutant: diagnostics are requested again whatever the close returned.
Closed_AlwaysRequests(c, O, R, clock) ==
    [o |-> requestAllDiagnostics(c, WithSync(O, R), clock), wasBufferOpen |-> R.ret]

\* const wasBufferOpen = syncedBuffer.close(), R being its result, and
\* what follows it.
Closed(c, O, R, clock) ==
    [o |-> IF R.ret THEN requestAllDiagnostics(c, WithSync(O, R), clock) ELSE WithSync(O, R),
     wasBufferOpen |-> R.ret]

closeResource(c, O, resource, clock) ==
    IF ~RM_has(c, O.syncedBuffers, resource) THEN [o |-> O, wasBufferOpen |-> FALSE]
    ELSE Closed(c,
             DeleteFromPendingGetErr(c,
                 [O EXCEPT !.pendingDiagnostics = RM_delete(c, @, resource),
                           !.syncedBuffers = RM_delete(c, @, resource),
                           !.fired = Append(@, [event |-> "onDelete", uri |-> resource])],
                 resource),
             Buffer_close(c, RM_get(c, O.syncedBuffers, resource), SyncOf(O)),
             clock)

\* Mutant: the pending request is cancelled with project diagnostics enabled too.
interruptGetErr_AlwaysCancels(c, O) ==
    IF O.pendingGetErr = 0 THEN O
    ELSE triggerDiagnostics([CancelPending(O) EXCEPT !.pendingGetErr = 0])

\* f is a callback with no effect on the orchestrator.
interruptGetErr(c, O) ==
    IF O.pendingGetErr = 0 \/ c.enableProjectDiagnostics THEN O
    ELSE triggerDiagnostics([CancelPending(O) EXCEPT !.pendingGetErr = 0])

\* The end of onDidChangeTextDocument, Q being the result of requestDiagnostic.
Retrigger(Q) ==
    [o |-> IF ~Q.ret /\ Q.o.pendingGetErr # 0
           THEN triggerDiagnostics([CancelPending(Q.o) EXCEPT !.pendingGetErr = 0])
           ELSE Q.o,
     didTrigger |-> Q.ret]

\* Mutant: the change is forwarded to the buffer before onWillChange fires.
Changed_ForwardsFirst(c, O, syncedBuffer, contentChanges, clock) ==
    Retrigger(
        requestDiagnostic(c,
            WithSync([O EXCEPT !.fired = Append(@,
                          [event |-> "onWillChange",
                           uri |-> Buffer_resource(syncedBuffer),
                           sync |-> Discard(Buffer_onContentChanged(c, syncedBuffer,
                                                SyncOf(O), contentChanges))])],
                     Buffer_onContentChanged(c, syncedBuffer, SyncOf(O), contentChanges)),
            syncedBuffer, clock))

\* onDidChangeTextDocument for the tracked buffer syncedBuffer.  The
\* onWillChange event carries the synchronizer as its listeners find it.
Changed(c, O, syncedBuffer, contentChanges, clock) ==
    Retrigger(
        requestDiagnostic(c,
            WithSync([O EXCEPT !.fired = Append(@, [event |-> "onWillChange",
                                                    uri |-> Buffer_resource(syncedBuffer),
                                                    sync |-> SyncOf(O)])],
                     Buffer_onContentChanged(c, syncedBuffer, SyncOf(O), contentChanges)),
            syncedBuffer, clock))

onDidChangeTextDocument(c, O, uri, contentChanges, clock) ==
    IF ~RM_has(c, O.syncedBuffers, uri) THEN [o |-> O, didTrigger |-> FALSE]
    ELSE Changed(c, O, RM_get(c, O.syncedBuffers, uri), contentChanges, clock)

RECURSIVE SetTimestamps(_, _, _, _)
SetTimestamps(c, m, resources, clock) ==
    IF resources = <<>> THEN m
    ELSE SetTimestamps(c, RM_set(c, m, resources[1], Date_now(clock)), Tail(resources),
                       Tick(clock))

\* Mutant: the resources are enqueued without triggering the delayer.
getErr_NoTrigger(c, O, resources, clock) ==
    LET handledResources ==
            SelectSeq(resources, LAMBDA u : RM_has(c, O.syncedBuffers, u))
    IN  IF Len(handledResources) = 0 THEN O
        ELSE [O EXCEPT !.pendingDiagnostics =
                           SetTimestamps(c, @, handledResources, clock)]

\* Mutant: the resources are enqueued whether they are tracked or not.
getErr_Unfiltered(c, O, resources, clock) ==
    IF Len(resources) = 0 THEN O
    ELSE triggerDiagnostics(
             [O EXCEPT !.pendingDiagnostics = SetTimestamps(c, @, resources, clock)])

getErr(c, O, resources, clock) ==
    LET handledResources ==
            SelectSeq(resources, LAMBDA u : RM_has(c, O.syncedBuffers, u))
    IN  IF Len(handledResources) = 0 THEN O
        ELSE triggerDiagnostics(
                 [O EXCEPT !.pendingDiagnostics =
                               SetTimestamps(c, @, handledResources, clock)])

\* Mutant: the synced buffers are not added to the file set.
sendPendingDiagnostics_PendingOnly(c, O) ==
    LET orderedFileSet == getOrderedFileSet(c, O.pendingDiagnostics)
        O1 == [CancelPending(O) EXCEPT !.pendingGetErr = 0]
    IN  IF RM_size(orderedFileSet) > 0
        THEN [O1 EXCEPT !.requests = Append(@, NewGetErrRequest(c, orderedFileSet)),
                        !.pendingGetErr = Len(O1.requests) + 1,
                        !.sent = @ \o GetErrCommands(c, orderedFileSet),
                        !.pendingDiagnostics = RM_clear]
        ELSE [O1 EXCEPT !.pendingDiagnostics = RM_clear]

\* Mutant: the files of the cancelled request are not carried over.
sendPendingDiagnostics_SkipsCancelled(c, O) ==
    LET ordered0 == getOrderedFileSet(c, O.pendingDiagnostics)
        O1 == [CancelPending(O) EXCEPT !.pendingGetErr = 0]
        buffers == RM_values(O.syncedBuffers)
        orderedFileSet ==
            SetAll(c, ordered0, [i \in 1..Len(buffers) |-> Buffer_resource(buffers[i])])
    IN  IF RM_size(orderedFileSet) > 0
        THEN [O1 EXCEPT !.requests = Append(@, NewGetErrRequest(c, orderedFileSet)),
                        !.pendingGetErr = Len(O1.requests) + 1,
                        !.sent = @ \o GetErrCommands(c, orderedFileSet),
                        !.pendingDiagnostics = RM_clear]
        ELSE [O1 EXCEPT !.pendingDiagnostics = RM_clear]

sendPendingDiagnostics(c, O) ==
    LET ordered0 == getOrderedFileSet(c, O.pendingDiagnostics)
        stillSynced ==
            IF O.pendingGetErr = 0 THEN <<>>
            ELSE SelectSeq(RM_resources(O.requests[O.pendingGetErr].files),
                           LAMBDA u : RM_has(c, O.syncedBuffers, u))
        ordered1 == SetAll(c, ordered0, stillSynced)
        O1 == [CancelPending(O) EXCEPT !.pendingGetErr = 0]
        buffers == RM_values(O.syncedBuffers)
        orderedFileSet ==
            SetAll(c, ordered1, [i \in 1..Len(buffers) |-> Buffer_resource(buffers[i])])
    IN  IF RM_size(orderedFileSet) > 0
        THEN [O1 EXCEPT !.requests = Append(@, NewGetErrRequest(c, orderedFileSet)),
                        !.pendingGetErr = Len(O1.requests) + 1,
                        !.sent = @ \o GetErrCommands(c, orderedFileSet),
                        !.pendingDiagnostics = RM_clear]
        ELSE [O1 EXCEPT !.pendingDiagnostics = RM_clear]

reset(O) ==
    LET O1 == CancelPending(O)
        S == Sync_reset(SyncOf(O1))
    IN  [O1 EXCEPT !.pendingDiagnostics = RM_clear, !.pending = S.pending, !.sent = S.sent]

RECURSIVE OpenAll(_, _, _)
OpenAll(c, O, i) ==
    IF i > Len(O.syncedBuffers) THEN O
    ELSE LET R == Buffer_open(c, O.syncedBuffers[i].value, SyncOf(O))
         IN  OpenAll(c, [O EXCEPT !.syncedBuffers[i].value = R.buffer,
                                   !.pending = R.pending,
                                   !.sent = R.sent], i + 1)

\* Mutant: the buffers are re-opened without a reset first.
reinitialize_NoReset(c, O) == OpenAll(c, O, 1)

reinitialize(c, O) == OpenAll(c, reset(O), 1)

beforeCommand(c, O, command) ==
    LET S == Sync_beforeCommand(c, SyncOf(O), command)
    IN  [O EXCEPT !.pending = S.pending, !.sent = S.sent]

\* The onDone callback handed to request i by sendPendingDiagnostics.
\* Mutant: the callback clears the handle whatever request it refers to.
onDone_AlwaysClears(O, i) ==
    [O EXCEPT !.requests[i].onDoneCalls = @ + 1, !.pendingGetErr = 0]

\* The onDone closure sendPendingDiagnostics gave to request i.
onDone(O, i) ==
    [O EXCEPT !.requests[i].onDoneCalls = @ + 1,
              !.pendingGetErr = IF O.pendingGetErr = i THEN 0 ELSE @]

\* request.finally(...) of request i.
onRequestSettled(O, i) ==
    LET O1 == [O EXCEPT !.requests[i].request = "settled"]
    IN  IF O.requests[i].done THEN O1
        ELSE onDone([O1 EXCEPT !.requests[i].done = TRUE], i)

\* The queued setImmediate(onDone) of request i.
onImmediate(O, i) == onDone([O EXCEPT !.requests[i].immediate = FALSE], i)

RECURSIVE DropClosed(_, _, _, _)
DropClosed(c, O, closed, i) ==
    IF i > Len(closed) THEN O
    ELSE DropClosed(c,
             IF RM_has(c, O.syncedBuffers, closed[i])
             THEN DeleteFromPendingGetErr(c,
                      [O EXCEPT !.pendingDiagnostics = RM_delete(c, @, closed[i])],
                      closed[i])
             ELSE O,
             closed, i + 1)

\* rets collects the results of the requestDiagnostic calls.
RECURSIVE RequestEach(_, _, _, _, _)
RequestEach(c, Q, uris, i, clock) ==
    IF i > Len(uris) THEN Q
    ELSE IF RM_has(c, Q.o.syncedBuffers, uris[i])
         THEN LET R == requestDiagnostic(c, Q.o,
                           RM_get(c, Q.o.syncedBuffers, uris[i]), clock)
              IN  RequestEach(c, [o |-> R.o, rets |-> Append(Q.rets, R.ret)],
                              uris, i + 1, IF R.ret THEN Tick(clock) ELSE clock)
         ELSE RequestEach(c, Q, uris, i + 1, clock)

\* The handler registered on TabResourceTracker.onDidChange.
onDidChangeTabResources(c, O, closed, opened, clock) ==
    IF c.enableProjectDiagnostics THEN [o |-> O, rets |-> <<>>]
    ELSE RequestEach(c, [o |-> DropClosed(c, O, closed, 1), rets |-> <<>>], opened, 1, clock)

\* e.closed.flatMap(tab => this.delete(tab))
RECURSIVE Tab_deleteAll(_, _, _)
Tab_deleteAll(c, T, closedTabs) ==
    IF closedTabs = <<>> THEN T
    ELSE LET D == Tab_delete(c, T.tabs, closedTabs[1])
         IN  Tab_deleteAll(c, [tabs |-> D.tabs, uris |-> T.uris \o D.uris], Tail(closedTabs))

\* e.opened.flatMap(tab => this.add(tab))
RECURSIVE Tab_addAll(_, _, _)
Tab_addAll(c, T, openedTabs) ==
    IF openedTabs = <<>> THEN T
    ELSE LET A == Tab_add(c, T.tabs, openedTabs[1])
         IN  Tab_addAll(c, [tabs |-> A.tabs, uris |-> T.uris \o A.uris], Tail(openedTabs))

\* TabResourceTracker's handler of the editor's onDidChangeTabs(e).
onDidChangeTabs(c, O, closedTabs, openedTabs, clock) ==
    LET D == Tab_deleteAll(c, [tabs |-> O.tabResources, uris |-> <<>>], closedTabs)
        A == Tab_addAll(c, [tabs |-> D.tabs, uris |-> <<>>], openedTabs)
        O1 == [O EXCEPT !.tabResources = A.tabs]
    IN  IF Len(D.uris) > 0 \/ Len(A.uris) > 0
        THEN onDidChangeTabResources(c, O1, D.uris, A.uris, clock)
        ELSE [o |-> O1, rets |-> <<>>]

\* The handler of onDidChangeVisibleTextEditors(e).
onDidChangeVisibleTextEditors(c, O, documents, clock) ==
    RequestEach(c, [o |-> O, rets |-> <<>>],
                [i \in 1..Len(documents) |-> documents[i].uri], 1, clock)

(***************************************************************************)
(* Spec: the BufferSyncSupport orchestrator under editor events, delayer   *)
(* firings and the completion of back-end requests.                        *)
(***************************************************************************)
DocA == Document(FileA, "typescript")
Doca == Document(Filea, "javascript")
DocX == Document(GitX, "typescript")
DocText == Document(FileA, "plaintext")

Documents == {DocA, Doca, DocX, DocText}
DocUris == {FileA, Filea}

Tab1 == [id |-> 1, input |-> "text", uri |-> FileA]
Tabs == {Tab1}

OpenTabIds == UNION {tabResources[i].value : i \in 1..Len(tabResources)}

TabLists == {<<>>} \cup {<<t>> : t \in Tabs}

\* new BufferSyncSupport(...): every map is empty, except that the tab tracker
\* has added the tabs that are open at that moment; updateConfiguration has
\* read the two validate.enable settings (c.validateJavaScript/TypeScript).
Constructed(c) ==
    \E openTabs \in TabLists :
        Fresh(c, Tab_addAll(c, [tabs |-> <<>>, uris |-> <<>>], openTabs).tabs)

OrchEvents == { <<>>, <<EditLine1>> }

\* A case-sensitive client without batching whose geterr requests reach the
\* back-end, with project diagnostics and JavaScript validation disabled; and a
\* case-insensitive client with batching, without the semantic capability
\* (every GetErrRequest completes early) and with project diagnostics enabled.
OrchConfigs ==
    { Config("client", FALSE, API_legacy, TRUE, FALSE, FALSE, TRUE),
      Config("client", TRUE, API_v340, FALSE, TRUE, TRUE, FALSE) }

\* The validate.enable settings of the workspace: validation is enabled for
\* one of the two languages.
ValidateSettings ==
    { [javascript |-> FALSE, typescript |-> TRUE],
      [javascript |-> TRUE, typescript |-> FALSE] }

Init == \E c \in OrchConfigs : Constructed(c)

\* A handler starts with nothing sent and nothing fired: in Spec, sent holds
\* the commands the last handler handed to the client.
OrchState ==
    [pendingDiagnostics |-> pendingDiagnostics, syncedBuffers |-> syncedBuffers,
     requests |-> requests, pendingGetErr |-> pendingGetErr,
     pending |-> pending, sent |-> <<>>,
     tabResources |-> tabResources, timer |-> timer, fired |-> <<>>]

\* The file set of a request that pendingGetErr no longer refers to is
\* unreachable (only its onDone closure and its token remain): it is dropped.
Reachable(reqs, pge) ==
    [i \in 1..Len(reqs) |-> IF i = pge THEN reqs[i] ELSE [reqs[i] EXCEPT !.files = <<>>]]

\* The handler ran to completion and left the orchestrator in state O.
Becomes(O) ==
    /\ Len(O.requests) <= MaxRequests
    /\ pendingDiagnostics' = O.pendingDiagnostics
    /\ syncedBuffers' = O.syncedBuffers
    /\ requests' = Reachable(O.requests, O.pendingGetErr)
    /\ pendingGetErr' = O.pendingGetErr
    /\ pending' = O.pending
    /\ sent' = O.sent
    /\ tabResources' = O.tabResources
    /\ timer' = O.timer
    /\ UNCHANGED <<cfg, map, issued, buffer>>

OpenTextDocument(d, clock) ==
    LET R == openTextDocument(cfg, OrchState, d, clock)
    IN  /\ Becomes(R.o)
        /\ last' = [op |-> "openTextDocument", document |-> d, ret |-> R.ret]

CloseTextDocument(u, clock) ==
    LET R == closeResource(cfg, OrchState, u, clock)
    IN  /\ Becomes(R.o)
        /\ last' = [op |-> "closeResource", resource |-> u, ret |-> R.wasBufferOpen,
                    fired |-> R.o.fired]

ChangeTextDocument(u, contentChanges, clock) ==
    LET R == onDidChangeTextDocument(cfg, OrchState, u, contentChanges, clock)
    IN  /\ Becomes(R.o)
        /\ last' = [op |-> "onDidChangeTextDocument", uri |-> u,
                    changes |-> Len(contentChanges), ret |-> R.didTrigger,
                    fired |-> R.o.fired]

ChangeVisibleTextEditors(d, clock) ==
    LET R == onDidChangeVisibleTextEditors(cfg, OrchState, <<d>>, clock)
    IN  /\ Becomes(R.o)
        /\ last' = [op |-> "onDidChangeVisibleTextEditors", ret |-> R.rets]

ChangeTabs(closedTabs, openedTabs, clock) ==
    /\ closedTabs # <<>> \/ openedTabs # <<>>
    /\ \A i \in 1..Len(closedTabs) : closedTabs[i].id \in OpenTabIds
    /\ \A i \in 1..Len(openedTabs) : openedTabs[i].id \notin OpenTabIds
    /\ LET R == onDidChangeTabs(cfg, OrchState, closedTabs, openedTabs, clock)
       IN  /\ Becomes(R.o)
           /\ last' = [op |-> "onDidChangeTabs", ret |-> R.rets]

\* The editor fires onDidChangeConfiguration; nothing but the two flags changes.
UpdateConfiguration(jsEnable, tsEnable) ==
    /\ cfg' = updateConfiguration(cfg, jsEnable, tsEnable)
    /\ sent' = <<>>
    /\ UNCHANGED <<map, pendingDiagnostics, syncedBuffers, requests, pendingGetErr,
                   pending, issued, tabResources, timer, buffer>>
    /\ last' = [op |-> "updateConfiguration"]

\* interruptGetErr(f) with an f that leaves the orchestrator alone; the record
\* keeps the files of the request the call cancelled.
InterruptGetErr ==
    /\ Becomes(interruptGetErr(cfg, OrchState))
    /\ last' = [op |-> "interruptGetErr", ret |-> "result of f",
                interrupted |-> IF pendingGetErr = 0 \/ cfg.enableProjectDiagnostics
                                THEN <<>>
                                ELSE RM_resources(requests[pendingGetErr].files)]

BeforeCommand(command) ==
    /\ Becomes(beforeCommand(cfg, OrchState, command))
    /\ last' = [op |-> "beforeCommand"]

RequestAllDiagnostics(clock) ==
    /\ Becomes(requestAllDiagnostics(cfg, OrchState, clock))
    /\ last' = [op |-> "requestAllDiagnostics"]

GetErr(resources, clock) ==
    /\ Becomes(getErr(cfg, OrchState, resources, clock))
    /\ last' = [op |-> "getErr"]

Reset ==
    /\ Becomes(reset(OrchState))
    /\ last' = [op |-> "reset", discarded |-> Len(pending)]

Reinitialize ==
    /\ Becomes(reinitialize(cfg, OrchState))
    /\ last' = [op |-> "reinitialize"]

\* The delayer fires: sendPendingDiagnostics runs and the timer is spent.
DelayerFires ==
    /\ timer
    /\ LET O == sendPendingDiagnostics(cfg, [OrchState EXCEPT !.timer = FALSE])
       IN  /\ Becomes(O)
           /\ last' = [op |-> "sendPendingDiagnostics",
                       created |-> IF Len(O.requests) > Len(requests)
                                   THEN Len(O.requests) ELSE 0]

\* The back-end request of request i resolves (success, failure or cancellation).
RequestSettles(i) ==
    /\ requests[i].request = "pending"
    /\ Becomes(onRequestSettled(OrchState, i))
    /\ last' = [op |-> "request.finally"]

\* The scheduler runs the queued onDone of request i.
ImmediateRuns(i) ==
    /\ requests[i].immediate
    /\ Becomes(onImmediate(OrchState, i))
    /\ last' = [op |-> "setImmediate"]

Next ==
    \/ \E d \in Documents, now \in 1..MaxNow : OpenTextDocument(d, <<now>>)
    \/ \E u \in DocUris, now \in 1..MaxNow : CloseTextDocument(u, <<now>>)
    \/ \E u \in DocUris, e \in OrchEvents, now \in 1..MaxNow :
           ChangeTextDocument(u, e, <<now>>)
    \/ \E d \in {DocA, Doca}, now \in 1..MaxNow : ChangeVisibleTextEditors(d, <<now>>)
    \/ \E x \in TabLists, o \in TabLists, now \in 1..MaxNow : ChangeTabs(x, o, <<now>>)
    \/ \E e \in ValidateSettings : UpdateConfiguration(e.javascript, e.typescript)
    \/ InterruptGetErr
    \/ \E command \in CommandNames : BeforeCommand(command)
    \/ \E now \in 1..MaxNow : RequestAllDiagnostics(<<now>>)
    \/ \E u \in DocUris, now \in 1..MaxNow : GetErr(<<u>>, <<now>>)
    \/ Reset
    \/ Reinitialize
    \/ DelayerFires
    \/ \E i \in 1..Len(requests) : RequestSettles(i)
    \/ \E i \in 1..Len(requests) : ImmediateRuns(i)

Spec == Init /\ [][Next]_vars

(***************************************************************************)
(* Properties of the orchestrator, checked under Spec.                     *)
(***************************************************************************)
ResourceSet(m) == {RM_resources(m)[k] : k \in 1..Len(RM_resources(m))}

TrackedBuffers == {syncedBuffers[i].value : i \in 1..Len(syncedBuffers)}

InTab(u) == Tab_has(cfg, tabResources, u)

KindEnabled(b) ==
    IF Buffer_kind(b) = "JavaScript" THEN cfg.validateJavaScript ELSE cfg.validateTypeScript

\* C3: among the GetErrRequests created so far, at most one is not done.
\* cancel() leaves _done unset, so a cancelled request whose back-end call has
\* not resolved is still not done when its replacement is created.
NotDone == {i \in 1..Len(requests) : ~requests[i].done}

C3_AtMostOneNotDone == Cardinality(NotDone) <= 1

\* C4: onDone of a GetErrRequest runs at most once, whatever the interleaving
\* of cancel() with the resolution of the back-end request or with the
\* early-complete path, and it has run exactly once as soon as the back-end
\* request has resolved or the queued early completion has run.
Completed(r) == r.request = "settled" \/ (r.request = "none" /\ ~r.immediate)

C4_OnDoneOnce ==
    \A i \in 1..Len(requests) :
        /\ requests[i].onDoneCalls <= 1
        /\ Completed(requests[i]) => requests[i].onDoneCalls = 1

\* A request was cancelled before its back-end request resolved, and one was
\* cancelled (token disposed) on the early-complete path.
C4_Witness ==
    \E i \in 1..Len(requests) :
        /\ requests[i].disposed
        /\ Completed(requests[i])
        /\ requests[i].onDoneCalls = 1
        /\ requests[i].cancelled \/ requests[i].request = "none"

\* C7: with project diagnostics disabled, requestDiagnostic of a tracked
\* buffer shown in no tab returns false, enqueues nothing and does not trigger
\* the delayer (shouldValidate requires the tab tracker to have the resource);
\* when a tab change makes a tracked buffer visible, the handler enqueues it in
\* pendingDiagnostics and triggers the delayer if its kind is validated.
C7_NotInTab ==
    \A b \in TrackedBuffers, now \in 1..MaxNow :
        LET R == requestDiagnostic(cfg, OrchState, b, <<now>>)
        IN  ~cfg.enableProjectDiagnostics =>
                /\ shouldValidate(cfg, OrchState, b) => InTab(Buffer_resource(b))
                /\ ~InTab(Buffer_resource(b)) =>
                       /\ ~R.ret
                       /\ R.o.pendingDiagnostics = pendingDiagnostics
                       /\ R.o.timer = timer

C7_TabOpened ==
    \A b \in TrackedBuffers :
        (/\ ~cfg.enableProjectDiagnostics
         /\ ~InTab(Buffer_resource(b))
         /\ Tab_has(cfg, tabResources', Buffer_resource(b))
         /\ KindEnabled(b))
        => /\ last'.op = "onDidChangeTabs"
           /\ \E k \in 1..Len(last'.ret) : last'.ret[k]
           /\ RM_has(cfg, pendingDiagnostics', Buffer_resource(b))
           /\ timer'

C7_VisibilityGatesValidation == [][C7_NotInTab /\ C7_TabOpened]_vars

\* A tab change has just made a tracked buffer visible and enqueued it, while
\* another tracked buffer is shown in no tab.
C7_Witness ==
    /\ ~cfg.enableProjectDiagnostics
    /\ last.op = "onDidChangeTabs"
    /\ \E k \in 1..Len(last.ret) : last.ret[k]
    /\ timer
    /\ \E b \in TrackedBuffers :
           InTab(Buffer_resource(b)) /\ RM_has(cfg, pendingDiagnostics, Buffer_resource(b))
    /\ \E b \in TrackedBuffers : ~InTab(Buffer_resource(b))

\* C8 as stated: with project diagnostics disabled, every file of a
\* GetErrRequest is visible in a tab when sendPendingDiagnostics creates it.
Created == last.op = "sendPendingDiagnostics" /\ last.created # 0

C8_OnlyVisibleFiles ==
    (Created /\ ~cfg.enableProjectDiagnostics) =>
        \A u \in ResourceSet(requests[last.created].files) : InTab(u)

\* C8: with project diagnostics disabled, the file set of a GetErrRequest
\* created by sendPendingDiagnostics is exactly the set of tracked synced
\* buffers, whether a tab shows them or not.
C8_CoversSyncedBuffers ==
    (Created /\ ~cfg.enableProjectDiagnostics) =>
        /\ pendingGetErr = last.created
        /\ RM_keys(requests[last.created].files) = RM_keys(syncedBuffers)

\* A request has just been created over a buffer that no tab shows.
C8_Witness ==
    /\ Created
    /\ ~cfg.enableProjectDiagnostics
    /\ \E u \in ResourceSet(requests[last.created].files) : ~InTab(u)

\* The step is interruptGetErr with a pending request and project diagnostics
\* disabled.
C12_Cancels ==
    (last'.op = "interruptGetErr" /\ pendingGetErr # 0 /\ ~cfg.enableProjectDiagnostics)
    => /\ requests'[pendingGetErr].disposed
       /\ requests'[pendingGetErr].cancelled
              = (requests[pendingGetErr].cancelled \/ ~requests[pendingGetErr].done)
       /\ pendingGetErr' = 0
       /\ timer'
       /\ last'.ret = "result of f"
       /\ last'.interrupted = RM_resources(requests[pendingGetErr].files)
       /\ UNCHANGED <<pendingDiagnostics, syncedBuffers, pending, tabResources>>
       /\ sent' = <<>>

C12_OnlyRunsF ==
    (last'.op = "interruptGetErr" /\ (pendingGetErr = 0 \/ cfg.enableProjectDiagnostics))
    => /\ last'.ret = "result of f"
       /\ last'.interrupted = <<>>
       /\ UNCHANGED <<requests, pendingGetErr, timer, pendingDiagnostics, syncedBuffers,
                      pending, tabResources>>
       /\ sent' = <<>>

\* The delayer fires right after an interruptGetErr that cancelled a request.
C12_NextDrain ==
    (last.op = "interruptGetErr" /\ last.interrupted # <<>>
         /\ last'.op = "sendPendingDiagnostics")
    => IF syncedBuffers = <<>> /\ pendingDiagnostics = <<>> THEN last'.created = 0
       ELSE /\ last'.created # 0
            /\ pendingGetErr' = last'.created
            /\ \A k \in 1..Len(last.interrupted) :
                   RM_has(cfg, syncedBuffers, last.interrupted[k]) =>
                       RM_has(cfg, requests'[last'.created].files, last.interrupted[k])
            /\ \A b \in TrackedBuffers :
                   RM_has(cfg, requests'[last'.created].files, Buffer_resource(b))

\* C12: with project diagnostics disabled and a GetErr pending,
\* interruptGetErr(f) cancels that request, returns the result of f and
\* triggers the delayer, and the request the delayer then creates covers the
\* files of the cancelled request that are still tracked and every synced
\* buffer; with no GetErr pending or project diagnostics enabled it only
\* runs f, cancelling and triggering nothing.
C12_InterruptGetErr == [][C12_Cancels /\ C12_OnlyRunsF /\ C12_NextDrain]_vars

\* C12 witness: interruptGetErr has just cancelled a request over two files
\* with no diagnostics pending; the delayer is armed.
C12_Witness ==
    /\ ~cfg.enableProjectDiagnostics
    /\ last.op = "interruptGetErr"
    /\ Len(last.interrupted) = 2
    /\ pendingDiagnostics = <<>>
    /\ pendingGetErr = 0
    /\ timer
    /\ \E i \in 1..Len(requests) : requests[i].cancelled /\ requests[i].disposed

\* The handler of the step left the orchestrator as it was and sent nothing.
NothingChanged ==
    /\ UNCHANGED <<pendingDiagnostics, syncedBuffers, requests, pendingGetErr, pending,
                   tabResources, timer>>
    /\ sent' = <<>>

Accepted(d) == d.languageId \in ModeIds /\ toTsFilePath(d.uri) # None

Tracked(u) == \E b \in TrackedBuffers : toKey(cfg, Buffer_resource(b)) = toKey(cfg, u)

C14_Ignored ==
    (last'.op = "openTextDocument" /\ ~Accepted(last'.document))
    => ~last'.ret /\ NothingChanged

C14_AlreadyTracked ==
    (last'.op = "openTextDocument" /\ Accepted(last'.document)
         /\ Tracked(last'.document.uri))
    => last'.ret /\ NothingChanged

C14_OneBufferPerKey ==
    \A i, j \in 1..Len(syncedBuffers') :
        toKey(cfg, Buffer_resource(syncedBuffers'[i].value))
            = toKey(cfg, Buffer_resource(syncedBuffers'[j].value)) => i = j

\* C14: opening a document whose resource key is already tracked (a URI that
\* differs only by case on a case-insensitive path included) returns true and
\* changes nothing: no second buffer, no Open operation, no diagnostics
\* enqueued; a document with a language id that is not accepted or without a
\* file path returns false and changes nothing.
C14_OpenIdempotent == [][C14_Ignored /\ C14_AlreadyTracked /\ C14_OneBufferPerKey]_vars

\* C14 witness: on a case-insensitive path a document was opened under a URI
\* that differs by case from the one buffer tracked; the call returned true
\* and the buffer is still the only one, under its first URI.
C14_Witness ==
    /\ cfg.onCaseInsensitiveFileSystem
    /\ last.op = "openTextDocument"
    /\ last.ret
    /\ sent = <<>>
    /\ Len(syncedBuffers) = 1
    /\ Buffer_resource(syncedBuffers[1].value) # last.document.uri
    /\ Tracked(last.document.uri)

\* The keys of the tracked buffers that shouldValidate accepts.
ValidatableKeys(m) ==
    {toKey(cfg, Buffer_resource(m[i].value)) : i \in
         {j \in 1..Len(m) : shouldValidate(cfg, OrchState, m[j].value)}}

C16_Removes ==
    (last'.op = "closeResource" /\ Tracked(last'.resource))
    => /\ syncedBuffers' = RM_delete(cfg, syncedBuffers, last'.resource)
       /\ ~RM_has(cfg, syncedBuffers', last'.resource)
       /\ ~RM_has(cfg, pendingDiagnostics', last'.resource)
       /\ pendingGetErr' = pendingGetErr
       /\ pendingGetErr # 0 =>
              /\ requests'[pendingGetErr].files
                     = RM_delete(cfg, requests[pendingGetErr].files, last'.resource)
              /\ ~RM_has(cfg, requests'[pendingGetErr].files, last'.resource)
       /\ last'.fired = <<[event |-> "onDelete", uri |-> last'.resource]>>
       /\ UNCHANGED tabResources

C16_ClosesBuffer ==
    (last'.op = "closeResource" /\ Tracked(last'.resource))
    => IF supportsBatching(cfg)
       THEN IF last'.ret
            THEN /\ RM_has(cfg, pending', last'.resource)
                 /\ RM_get(cfg, pending', last'.resource).type = "Close"
            ELSE /\ RM_has(cfg, pending, last'.resource)
                 /\ RM_get(cfg, pending, last'.resource).type = "Open"
                 /\ pending' = RM_delete(cfg, pending, last'.resource)
                 /\ sent' = <<>>
       ELSE /\ last'.ret
            /\ Len(sent') = 1
            /\ sent'[1].command = "close"

C16_RequestsIffOpen ==
    (last'.op = "closeResource" /\ Tracked(last'.resource))
    => IF last'.ret
       THEN /\ timer'
            /\ RM_keys(pendingDiagnostics')
                   = RM_keys(RM_delete(cfg, pendingDiagnostics, last'.resource))
                         \cup ValidatableKeys(syncedBuffers')
       ELSE /\ timer' = timer
            /\ pendingDiagnostics' = RM_delete(cfg, pendingDiagnostics, last'.resource)

C16_Untracked ==
    (last'.op = "closeResource" /\ ~Tracked(last'.resource))
    => ~last'.ret /\ last'.fired = <<>> /\ NothingChanged

\* C16: closeResource of a tracked resource removes it from syncedBuffers,
\* from pendingDiagnostics and from the files of the pending GetErrRequest,
\* closes its buffer and fires onDelete; it enqueues every validatable
\* tracked buffer and triggers the delayer exactly when the close of the
\* buffer returned true, so not when the Open of the buffer was still
\* pending in the batch.  closeResource of an untracked resource changes
\* nothing and fires nothing.
C16_CloseResource ==
    [][C16_Removes /\ C16_ClosesBuffer /\ C16_RequestsIffOpen /\ C16_Untracked]_vars

\* C16 witness: a buffer was closed while its Open was still pending in the
\* batch: onDelete fired, the close returned false and the delayer, idle
\* before, was not triggered.
C16_Witness ==
    /\ supportsBatching(cfg)
    /\ last.op = "closeResource"
    /\ last.fired # <<>>
    /\ ~last.ret
    /\ ~timer
    /\ pending = <<>>
    /\ ~Tracked(last.resource)

C18_ClearsOwnHandle ==
    \A i \in 1..Len(requests) :
        requests'[i].onDoneCalls > requests[i].onDoneCalls =>
            /\ pendingGetErr' = IF pendingGetErr = i THEN 0 ELSE pendingGetErr
            /\ (pendingGetErr # 0 /\ pendingGetErr # i) =>
                   requests'[pendingGetErr] = requests[pendingGetErr]

C18_HandleStoredFirst ==
    (last'.op = "sendPendingDiagnostics" /\ last'.created # 0)
    => /\ last'.created = Len(requests')
       /\ Len(requests') = Len(requests) + 1
       /\ pendingGetErr' = last'.created
       /\ requests'[last'.created].onDoneCalls = 0
       /\ requests'[last'.created].request = "none" =>
              requests'[last'.created].done /\ requests'[last'.created].immediate

\* C18: the completion callback of a GetErrRequest clears pendingGetErr
\* exactly when pendingGetErr still refers to that request, so the late
\* resolution of a cancelled and replaced request leaves the newer request in
\* pendingGetErr untouched; an early completion is queued for the next
\* scheduler turn, so the callback has not run when the new handle is stored.
C18_OnDoneClearsOwnHandle == [][C18_ClearsOwnHandle /\ C18_HandleStoredFirst]_vars

\* C18 witness: the back-end call of a cancelled request has just resolved
\* and run its callback while a newer request is in pendingGetErr.
C18_Witness ==
    /\ last.op = "request.finally"
    /\ pendingGetErr # 0
    /\ \E i \in 1..Len(requests) :
           /\ i < pendingGetErr
           /\ requests[i].cancelled
           /\ requests[i].request = "settled"
           /\ requests[i].onDoneCalls = 1
    /\ requests[pendingGetErr].onDoneCalls = 0

\* C19: a GetErrRequest on which cancel() has run is done, whether or not its
\* back-end request has resolved.  cancel() only cancels and disposes the
\* token: a request cancelled while its back-end call is pending stays
\* non-done until that call resolves.
C19_CancelledIsDone ==
    \A i \in 1..Len(requests) : requests[i].disposed => requests[i].done

C20_Clears ==
    last'.op = "reset"
    => /\ pendingDiagnostics' = <<>>
       /\ pending' = <<>>
       /\ sent' = <<>>
       /\ last'.discarded = Len(pending)
       /\ pendingGetErr' = pendingGetErr
       /\ Len(requests') = Len(requests)
       /\ pendingGetErr # 0 =>
              /\ requests'[pendingGetErr].disposed
              /\ requests'[pendingGetErr].cancelled
                     = (requests[pendingGetErr].cancelled \/ ~requests[pendingGetErr].done)

C20_Frame ==
    last'.op = "reset" => UNCHANGED <<syncedBuffers, tabResources>>

\* C20: reset() cancels the pending GetErrRequest, empties pendingDiagnostics
\* and empties the pending operations of the synchronizer without sending
\* them; syncedBuffers with the state of every buffer and the tab tracker
\* stay as they were.
C20_ResetDiscards == [][C20_Clears /\ C20_Frame]_vars

\* C20 witness: reset() has just discarded a pending operation and emptied
\* pendingDiagnostics while a buffer is tracked and a tab is shown; nothing
\* was sent.
C20_Witness ==
    /\ last.op = "reset"
    /\ last.discarded > 0
    /\ sent = <<>>
    /\ pending = <<>>
    /\ pendingDiagnostics = <<>>
    /\ syncedBuffers # <<>>
    /\ tabResources # <<>>
    /\ pendingGetErr # 0
    /\ requests[pendingGetErr].disposed

(***************************************************************************)
(* SpecDrain: the diagnostics loop of one case-sensitive client over three *)
(* documents, with a wall clock that may tick, or be set back, between two *)
(* reads of Date.now().                                                    *)
(***************************************************************************)
FileB == Uri("file", <<"/", "B">>)
DocB == Document(FileB, "typescript")

DrainDocuments == {DocA, Doca, DocB}
DrainUris == {FileA, Filea, FileB}
DrainConfigs == { Config("client", FALSE, API_legacy, TRUE, FALSE, FALSE, TRUE) }

\* The editor shows no tab when the client starts.
InitDrain == \E c \in DrainConfigs : Constructed(c) /\ tabResources = <<>>

\* getErr over two resources reads the clock twice.
NextDrain ==
    \/ \E d \in DrainDocuments, now \in 1..MaxStamp : OpenTextDocument(d, <<now>>)
    \/ \E u \in DrainUris, now \in 1..MaxStamp : CloseTextDocument(u, <<now>>)
    \/ \E u \in DrainUris, now \in 1..MaxStamp : GetErr(<<u>>, <<now>>)
    \/ \E now \in 1..MaxStamp, later \in 1..MaxStamp :
           GetErr(<<FileA, FileB>>, <<now, later>>)
    \/ DelayerFires
    \/ \E i \in 1..Len(requests) : RequestSettles(i)

SpecDrain == InitDrain /\ [][NextDrain]_vars

(***************************************************************************)
(* Properties of sendPendingDiagnostics (SpecDrain).                       *)
(***************************************************************************)
KeySeq(m) == [i \in 1..Len(m) |-> m[i].key]

\* The sequence s without the later occurrences of its elements.
RECURSIVE Dedupe(_, _)
Dedupe(s, acc) ==
    IF s = <<>> THEN acc
    ELSE Dedupe(Tail(s),
                IF \E i \in 1..Len(acc) : acc[i] = s[1] THEN acc ELSE Append(acc, s[1]))

\* The timestamp pendingDiagnostics holds for key k.
StampOf(k) ==
    pendingDiagnostics[CHOOSE i \in 1..Len(pendingDiagnostics) :
                           pendingDiagnostics[i].key = k].value

\* The keys of the files of the pending request that are still synced buffers.
StillSynced ==
    IF pendingGetErr = 0 THEN <<>>
    ELSE SelectSeq(KeySeq(requests[pendingGetErr].files),
                   LAMBDA k : k \in RM_keys(syncedBuffers))

\* got is the pending-diagnostics keys oldest first, then StillSynced, then
\* the synced buffers, each key at its first occurrence only.
DrainOrder(got) ==
    LET n == Len(pendingDiagnostics)
    IN  /\ Len(got) >= n
        /\ {got[i] : i \in 1..n} = RM_keys(pendingDiagnostics)
        /\ \A i, j \in 1..n : i < j => StampOf(got[i]) <= StampOf(got[j])
        /\ got = Dedupe(SubSeq(got, 1, n) \o StillSynced \o KeySeq(syncedBuffers), <<>>)

C17_Drain ==
    last'.op = "sendPendingDiagnostics"
    => /\ pendingGetErr # 0 =>
              /\ requests'[pendingGetErr].disposed
              /\ requests'[pendingGetErr].cancelled
                     = (requests[pendingGetErr].cancelled \/ ~requests[pendingGetErr].done)
       /\ pendingDiagnostics' = <<>>
       /\ pendingGetErr' = last'.created
       /\ (last'.created # 0)
              = (Len(pendingDiagnostics) + Len(StillSynced) + Len(syncedBuffers) > 0)
       /\ last'.created # 0 =>
              /\ last'.created = Len(requests) + 1
              /\ DrainOrder(KeySeq(requests'[last'.created].files))

\* C17: a drain cancels the pending GetErrRequest if there is one, builds a
\* duplicate-free file set made of the pending-diagnostics files oldest
\* first, then the files of the cancelled request that are still synced
\* buffers, then the remaining synced buffers, creates a new GetErrRequest
\* over it exactly when it is not empty, and leaves pendingDiagnostics empty.
C17_DrainOrder == [][C17_Drain]_vars

\* C17 witness: a drain has just replaced a request whose back-end call is
\* still pending by one over three files, in an order that is not that of
\* syncedBuffers.
C17_Witness ==
    /\ last.op = "sendPendingDiagnostics"
    /\ last.created = 2
    /\ requests[1].cancelled
    /\ requests[1].request = "pending"
    /\ Len(requests[2].files) = 3
    /\ Len(syncedBuffers) = 3
    /\ KeySeq(requests[2].files) # KeySeq(syncedBuffers)
    /\ KeySeq(requests[2].files)[3] # KeySeq(syncedBuffers)[3]
    /\ pendingDiagnostics = <<>>

(***************************************************************************)
(* Further properties of the orchestrator, checked under Spec.             *)
(***************************************************************************)
C21_Untracked ==
    (last'.op = "onDidChangeTextDocument" /\ ~Tracked(last'.uri))
    => ~last'.ret /\ last'.fired = <<>> /\ NothingChanged

\* onWillChange fired once, for the tracked buffer, on a synchronizer that
\* had not yet received the change; the change then reached the synchronizer.
C21_FiresThenForwards ==
    (last'.op = "onDidChangeTextDocument" /\ Tracked(last'.uri))
    => /\ last'.fired =
              <<[event |-> "onWillChange",
                 uri |-> Buffer_resource(RM_get(cfg, syncedBuffers, last'.uri)),
                 sync |-> [pending |-> pending, sent |-> <<>>]]>>
       /\ last'.changes > 0 =>
              IF supportsBatching(cfg)
              THEN /\ RM_has(cfg, pending', last'.uri)
                   /\ RM_get(cfg, pending', last'.uri).type = "Change"
              ELSE /\ Len(sent') = last'.changes
                   /\ \A k \in 1..Len(sent') : sent'[k].command = "change"
       /\ last'.changes = 0 => pending' = pending /\ sent' = <<>>
       /\ UNCHANGED <<syncedBuffers, tabResources>>

C21_Rescheduling ==
    (last'.op = "onDidChangeTextDocument" /\ Tracked(last'.uri))
    => /\ last'.ret = shouldValidate(cfg, OrchState, RM_get(cfg, syncedBuffers, last'.uri))
       /\ IF last'.ret
          THEN /\ UNCHANGED <<requests, pendingGetErr>>
               /\ RM_has(cfg, pendingDiagnostics', last'.uri)
               /\ timer'
          ELSE IF pendingGetErr # 0
          THEN /\ requests'[pendingGetErr].disposed
               /\ requests'[pendingGetErr].cancelled
                      = (requests[pendingGetErr].cancelled \/ ~requests[pendingGetErr].done)
               /\ pendingGetErr' = 0
               /\ timer'
               /\ UNCHANGED pendingDiagnostics
          ELSE UNCHANGED <<requests, pendingGetErr, timer, pendingDiagnostics>>

\* C21: a change of a tracked document fires onWillChange before the change
\* is forwarded to the buffer; if requestDiagnostic then returns false and a
\* GetErrRequest is pending, the request is cancelled, pendingGetErr is
\* cleared and the delayer is triggered; if it returns true the pending
\* request is left alone.  A change of an untracked document fires nothing
\* and changes nothing.
C21_DocumentChanged ==
    [][C21_Untracked /\ C21_FiresThenForwards /\ C21_Rescheduling]_vars

\* C21 witness: a change of a tracked buffer that no tab shows was forwarded
\* after onWillChange fired, and cancelled the pending request.
C21_Witness ==
    /\ last.op = "onDidChangeTextDocument"
    /\ last.changes > 0
    /\ ~last.ret
    /\ Len(last.fired) = 1
    /\ last.fired[1].sync.sent = <<>>
    /\ sent # <<>>
    /\ pendingGetErr = 0
    /\ timer
    /\ \E i \in 1..Len(requests) :
           requests[i].cancelled /\ requests[i].request = "pending"

\* C24: every resource in pendingDiagnostics is a tracked synced buffer, and
\* while pendingGetErr is set every file of that request is a tracked synced
\* buffer.
C24_OnlyTrackedResources ==
    /\ RM_keys(pendingDiagnostics) \subseteq RM_keys(syncedBuffers)
    /\ \A u \in ResourceSet(pendingDiagnostics) : Tracked(u)
    /\ pendingGetErr # 0 =>
           /\ RM_keys(requests[pendingGetErr].files) \subseteq RM_keys(syncedBuffers)
           /\ \A u \in ResourceSet(requests[pendingGetErr].files) : Tracked(u)

\* C24 witness: a buffer has just been closed while a request over two files
\* was pending; the other buffer is still tracked, in the files of the
\* request and enqueued again.
C24_Witness ==
    /\ last.op = "closeResource"
    /\ last.ret
    /\ Len(syncedBuffers) = 1
    /\ pendingGetErr # 0
    /\ Len(requests[pendingGetErr].files) = 1
    /\ Len(pendingDiagnostics) = 1
    /\ ~RM_has(cfg, pendingDiagnostics, last.resource)
    /\ ~RM_has(cfg, requests[pendingGetErr].files, last.resource)

(***************************************************************************)
(* SpecReinit: a case-sensitive client with batching whose back-end is     *)
(* restarted (reinitialize) between document events and commands.          *)
(***************************************************************************)
ReinitConfigs == { Config("client", FALSE, API_v340, TRUE, TRUE, TRUE, TRUE) }

InitReinit == \E c \in ReinitConfigs : Constructed(c)

NextReinit ==
    \/ \E d \in {DocA, Doca} : OpenTextDocument(d, <<1>>)
    \/ \E u \in DocUris : CloseTextDocument(u, <<1>>)
    \/ \E u \in DocUris, e \in OrchEvents : ChangeTextDocument(u, e, <<1>>)
    \/ \E command \in CommandNames : BeforeCommand(command)
    \/ \E e \in ValidateSettings : UpdateConfiguration(e.javascript, e.typescript)
    \/ Reinitialize

SpecReinit == InitReinit /\ [][NextReinit]_vars

C22_Reinitialized ==
    (last'.op = "reinitialize" /\ supportsBatching(cfg))
    => /\ sent' = <<>>
       /\ KeySeq(syncedBuffers') = KeySeq(syncedBuffers)
       /\ Len(pending') = Len(syncedBuffers')
       /\ \A i \in 1..Len(syncedBuffers') :
              /\ syncedBuffers'[i].value.state = BufferState_Open
              /\ pending'[i].key = syncedBuffers'[i].key
              /\ pending'[i].value.type = "Open"
              /\ pending'[i].value.args.file = syncedBuffers'[i].value.filepath
       /\ pendingDiagnostics' = <<>>

\* C22: reinitialize() resets and then re-opens every tracked buffer: with
\* batching the pending map then holds one Open operation for each tracked
\* buffer and nothing else, no updateOpen was sent, and every tracked buffer
\* is in state Open.
C22_ReinitializeReopens == [][C22_Reinitialized]_vars

\* C22 witness: reinitialize() has just re-opened two tracked buffers.
C22_Witness ==
    /\ supportsBatching(cfg)
    /\ last.op = "reinitialize"
    /\ Len(syncedBuffers) = 2
    /\ Len(pending) = 2
    /\ sent = <<>>
    /\ \A i \in 1..2 : pending[i].value.type = "Open"

(***************************************************************************)
(* SpecReplica: document events and commands of one client, without reset, *)
(* sent being the log of everything sent to the back-end so far.           *)
(***************************************************************************)
ReplicaConfigs ==
    { Config("client", FALSE, API_legacy, TRUE, FALSE, TRUE, TRUE),
      Config("client", FALSE, API_v340, TRUE, FALSE, TRUE, TRUE),
      Config("client", TRUE, API_v340, TRUE, FALSE, TRUE, TRUE) }

InitReplica == \E c \in ReplicaConfigs : Constructed(c)

\* The handler ran to completion, left the orchestrator in state O and its
\* commands at the end of the log.
Emits(O) ==
    /\ Len(sent) + Len(O.sent) <= MaxLog
    /\ pendingDiagnostics' = O.pendingDiagnostics
    /\ syncedBuffers' = O.syncedBuffers
    /\ requests' = O.requests
    /\ pendingGetErr' = O.pendingGetErr
    /\ pending' = O.pending
    /\ sent' = sent \o O.sent
    /\ tabResources' = O.tabResources
    /\ timer' = O.timer
    /\ UNCHANGED <<cfg, map, issued, buffer>>

ReplicaOpen(d) ==
    /\ Emits(openTextDocument(cfg, OrchState, d, <<1>>).o)
    /\ last' = [op |-> "openTextDocument"]

ReplicaClose(u) ==
    /\ Emits(closeResource(cfg, OrchState, u, <<1>>).o)
    /\ last' = [op |-> "closeResource"]

ReplicaChange(u, contentChanges) ==
    /\ Emits(onDidChangeTextDocument(cfg, OrchState, u, contentChanges, <<1>>).o)
    /\ last' = [op |-> "onDidChangeTextDocument"]

ReplicaBeforeCommand(command) ==
    /\ Emits(beforeCommand(cfg, OrchState, command))
    /\ last' = [op |-> "beforeCommand", arg |-> command]

NextReplica ==
    \/ \E d \in {DocA, Doca} : ReplicaOpen(d)
    \/ \E u \in DocUris : ReplicaClose(u)
    \/ \E u \in DocUris, e \in OrchEvents : ReplicaChange(u, e)
    \/ \E command \in CommandNames : ReplicaBeforeCommand(command)

SpecReplica == InitReplica /\ [][NextReplica]_vars

(***************************************************************************)
(* The back-end as the log drives it.  It applies the open, changed and    *)
(* closed files of an updateOpen in that order.                            *)
(***************************************************************************)
\* The files a command opens, touches (changes or closes) and closes.
Opens(cmd) ==
    IF cmd.command = "open" THEN <<cmd.args.file>>
    ELSE IF cmd.command = "updateOpen"
    THEN [i \in 1..Len(cmd.args.openFiles) |-> cmd.args.openFiles[i].file]
    ELSE <<>>

Changes(cmd) ==
    IF cmd.command = "change" THEN <<cmd.args.file>>
    ELSE IF cmd.command = "updateOpen"
    THEN [i \in 1..Len(cmd.args.changedFiles) |-> cmd.args.changedFiles[i].fileName]
    ELSE <<>>

Closes(cmd) ==
    IF cmd.command = "close" THEN <<cmd.args.file>>
    ELSE IF cmd.command = "updateOpen" THEN cmd.args.closedFiles
    ELSE <<>>

Range(f) == {f[i] : i \in 1..Len(f)}

\* B is [open |-> files held open, stray |-> a Close or Change came for a
\* file not held open].
Served(B, cmd) ==
    [open |-> (B.open \cup Range(Opens(cmd))) \ Range(Closes(cmd)),
     stray |-> \/ B.stray
               \/ ~(Range(Changes(cmd)) \cup Range(Closes(cmd))
                        \subseteq B.open \cup Range(Opens(cmd)))]

RECURSIVE Replay(_, _)
Replay(B, log) ==
    IF log = <<>> THEN B ELSE Replay(Served(B, log[1]), Tail(log))

BackEnd == Replay([open |-> {}, stray |-> FALSE], sent)

\* C25: without reset, right after beforeCommand of a command other than
\* updateOpen the files the back-end holds open are the file paths of the
\* tracked synced buffers, and the back-end never receives a Close or a
\* Change for a file it does not hold open; with and without batching.
C25_ReplicaConsistent ==
    /\ ~BackEnd.stray
    /\ (last.op = "beforeCommand" /\ last.arg # "updateOpen")
           => BackEnd.open = {b.filepath : b \in TrackedBuffers}

\* C25 witness: with batching, after an Open, a Change and a Close have gone
\* out in three batches and another buffer was opened, a command has just
\* flushed and the back-end holds the tracked buffer only.
C25_Witness ==
    /\ supportsBatching(cfg)
    /\ last.op = "beforeCommand"
    /\ last.arg # "updateOpen"
    /\ Len(sent) >= 3
    /\ \E i \in 1..Len(sent) : Len(Closes(sent[i])) > 0
    /\ \E i \in 1..Len(sent) : Len(Changes(sent[i])) > 0
    /\ Cardinality(BackEnd.open) = 1
    /\ Len(syncedBuffers) = 1
    /\ pending = <<>>

(***************************************************************************)
(* SpecLive: the diagnostics loop under a bounded number of editor events  *)
(* and API calls (issued counts them), with a delayer that fires once      *)
(* armed, a scheduler that runs what setImmediate queued and a back-end    *)
(* that resolves every request.                                            *)
(***************************************************************************)
\* A client whose geterr requests reach the back-end, with project
\* diagnostics disabled, and one without the semantic capability (every
\* GetErrRequest completes early), with project diagnostics enabled.
LiveConfigs ==
    { Config("client", FALSE, API_legacy, TRUE, FALSE, TRUE, TRUE),
      Config("client", FALSE, API_legacy, FALSE, TRUE, TRUE, TRUE) }

InitLive == \E c \in LiveConfigs : Constructed(c)

\* The handler ran to completion and left the orchestrator in state O.
Handles(O) ==
    /\ pendingDiagnostics' = O.pendingDiagnostics
    /\ syncedBuffers' = O.syncedBuffers
    /\ requests' = Reachable(O.requests, O.pendingGetErr)
    /\ pendingGetErr' = O.pendingGetErr
    /\ pending' = O.pending
    /\ sent' = O.sent
    /\ tabResources' = O.tabResources
    /\ timer' = O.timer
    /\ UNCHANGED <<cfg, map, buffer>>

\* An editor event or API call whose handler leaves the orchestrator in O.
LiveEvent(name, O) ==
    /\ Len(issued) < MaxEvents
    /\ issued' = Append(issued, "event")
    /\ Handles(O)
    /\ last' = [op |-> name]

LiveOpen(d) == LiveEvent("openTextDocument", openTextDocument(cfg, OrchState, d, <<1>>).o)

LiveClose(u) == LiveEvent("closeResource", closeResource(cfg, OrchState, u, <<1>>).o)

LiveGetErr(u) == LiveEvent("getErr", getErr(cfg, OrchState, <<u>>, <<1>>))

LiveInterruptGetErr == LiveEvent("interruptGetErr", interruptGetErr(cfg, OrchState))

LiveReset == LiveEvent("reset", reset(OrchState))

LiveChangeTabs(closedTabs, openedTabs) ==
    /\ closedTabs # <<>> \/ openedTabs # <<>>
    /\ \A i \in 1..Len(closedTabs) : closedTabs[i].id \in OpenTabIds
    /\ \A i \in 1..Len(openedTabs) : openedTabs[i].id \notin OpenTabIds
    /\ LiveEvent("onDidChangeTabs",
                 onDidChangeTabs(cfg, OrchState, closedTabs, openedTabs, <<1>>).o)

LiveUpdateConfiguration(jsEnable, tsEnable) ==
    /\ Len(issued) < MaxEvents
    /\ issued' = Append(issued, "event")
    /\ cfg' = updateConfiguration(cfg, jsEnable, tsEnable)
    /\ sent' = <<>>
    /\ UNCHANGED <<map, pendingDiagnostics, syncedBuffers, requests, pendingGetErr,
                   pending, tabResources, timer, buffer>>
    /\ last' = [op |-> "updateConfiguration"]

LiveDelayerFires ==
    /\ timer
    /\ LET O == sendPendingDiagnostics(cfg, [OrchState EXCEPT !.timer = FALSE])
       IN  /\ Handles(O)
           /\ last' = [op |-> "sendPendingDiagnostics",
                       created |-> IF Len(O.requests) > Len(requests)
                                   THEN Len(O.requests) ELSE 0]
    /\ UNCHANGED issued

LiveSettles(i) ==
    /\ i <= Len(requests)
    /\ requests[i].request = "pending"
    /\ Handles(onRequestSettled(OrchState, i))
    /\ last' = [op |-> "request.finally"]
    /\ UNCHANGED issued

LiveImmediate(i) ==
    /\ i <= Len(requests)
    /\ requests[i].immediate
    /\ Handles(onImmediate(OrchState, i))
    /\ last' = [op |-> "setImmediate"]
    /\ UNCHANGED issued

NextLive ==
    \/ \E d \in {DocA, Doca} : LiveOpen(d)
    \/ \E u \in DocUris : LiveClose(u)
    \/ \E u \in DocUris : LiveGetErr(u)
    \/ \E x \in TabLists, o \in TabLists : LiveChangeTabs(x, o)
    \/ \E e \in ValidateSettings : LiveUpdateConfiguration(e.javascript, e.typescript)
    \/ LiveInterruptGetErr
    \/ LiveReset
    \/ LiveDelayerFires
    \/ \E i \in 1..MaxEvents : LiveSettles(i)
    \/ \E i \in 1..MaxEvents : LiveImmediate(i)

\* The timer of the delayer elapses: a step that takes the timer from armed
\* to idle, which in SpecLive is a step of LiveDelayerFires, enabled exactly
\* when the timer is armed.
DelayerElapses == timer /\ timer' = FALSE

\* The armed delayer fires; the back-end resolves a request, cancelled or
\* not; node runs what setImmediate queued.
LiveFairness ==
    /\ WF_timer(DelayerElapses)
    /\ WF_vars(\E i \in 1..MaxEvents : LiveSettles(i))
    /\ WF_vars(\E i \in 1..MaxEvents : LiveImmediate(i))

SpecLive == InitLive /\ [][NextLive]_vars /\ LiveFairness

\* A request over u has just been created.
CreatedOver(u) ==
    /\ Created
    /\ pendingGetErr = last.created
    /\ RM_has(cfg, requests[last.created].files, u)

C26_Enqueued ==
    \A u \in DocUris :
        RM_has(cfg, pendingDiagnostics, u) ~> (~Tracked(u) \/ CreatedOver(u))

C26_Completes ==
    \A i \in 1..MaxEvents :
        (i <= Len(requests))
            ~> (i <= Len(requests) /\ requests[i].done /\ pendingGetErr # i)

\* C26: a resource enqueued in pendingDiagnostics that stays tracked is
\* eventually in the file set of a newly created GetErrRequest, given that
\* the armed delayer fires; and every created GetErrRequest eventually is
\* done and no longer the one pendingGetErr refers to, given that the
\* back-end resolves its requests and queued callbacks run.
C26_DiagnosticsProgress == C26_Enqueued /\ C26_Completes

\* C26 witness: a request created over an enqueued resource was cancelled
\* and replaced; both requests are done and pendingGetErr is clear.
C26_Witness ==
    /\ Len(requests) = 2
    /\ requests[1].cancelled
    /\ \A i \in 1..2 : requests[i].done /\ requests[i].onDoneCalls = 1
    /\ pendingGetErr = 0
    /\ syncedBuffers # <<>>
    /\ pendingDiagnostics = <<>>
    /\ ~timer

====
